---- MODULE Spec2Model ----
(***************************************************************************)
(* A model of the real-time event pipeline of Twitch-Channel-Points-Miner: *)
(* the PubSub connection pool (WebSocketsPool.submit, append_new_websocket,*)
(* end, on_open, on_close, handle_reconnection), the message dispatcher    *)
(* (WebSocketsPool.on_message) with the wager state machine, and the watch *)
(* scheduler (Twitch.send_minute_watched_events).                          *)
(*                                                                         *)
(* Threads.  The pool is driven by the main thread (the start-up submit    *)
(* loop, later end()), by one reader thread per connection (run_forever:   *)
(* the callbacks on_message and on_close) and by one keepalive thread per  *)
(* connection (the thread on_open starts).  Every statement of submit that *)
(* reads or writes the shared pool is one step of the thread running it.   *)
(*                                                                         *)
(* Topic lists are kept as bags: the order of a connection's topics is     *)
(* read only by the loop of handle_reconnection, which runs on a list that *)
(* no thread can reach any more (its slot is None), in ascending order     *)
(* here.                                                                   *)
(***************************************************************************)
EXTENDS Integers, Sequences, FiniteSets, Bags, TLC

\* ------------------------------------------------------------------ bounds
\* Topics the main thread still subscribes after the initial state.
MaxSubmit == 2
\* Spontaneous transport events (a RECONNECT frame, a dropped transport, a
\* stale PONG seen by the keepalive loop) in one behaviour.
MaxFaults == 1
\* MESSAGE frames delivered in one behaviour, over all connections.
MaxFrames == 3
\* Completed cycles of the watch scheduler in one behaviour.
MaxCycles == 2
\* Streamers with a missing watch streak, or with drops, in an initial state.
MaxFlagged == 2
\* The largest prediction_window_seconds of an event-created frame.
MaxWindow == 400
\* time.time() when the dispatcher and the watch scheduler run.
Now == 100

\* --------------------------------------------------------------- constants
\* "Clients can listen on up to 50 topics per connection."
TopicCap == 50

VARIABLES
    ws,         \* WebSocketsPool.ws: the slots, a connection's id or None
    conn,       \* the TwitchWebSocket objects ever created, by id
    thr,        \* the threads: the main thread, readers, keepalives
    mainLeft,   \* topics the main thread has still to subscribe
    mainNext,   \* the next topic the main thread subscribes
    faults,     \* spontaneous transport events so far
    resub,      \* per connection, the topics handle_reconnection re-submitted
    streamers,  \* the Streamer objects, by index
    rdr,        \* on_message: per connection, the reader inside the handler
    last,       \* per connection, last_message_timestamp / _type_channel
    events_predictions, \* the tracked wager events, by event id
    timers,     \* the armed place_bet Timers that have not fired yet
    betting,    \* the browser is busy with a bet
    routed,     \* MESSAGE frames that passed the duplicate check
    calls,      \* the calls on_message made on ws.twitch, in order
    caught,     \* per connection, exceptions caught at line 321
    raised,     \* per connection, exceptions that left on_message
    armed,      \* the event ids of every Timer started so far
    priority,   \* send_minute_watched_events: the configured Priority list
    wpc,        \* the watch scheduler's position
    wk,         \* its loop index
    streamers_index,    \* the local list streamers_index
    streamers_watching, \* the local list streamers_watching
    sent,       \* the heartbeats sent in the current cycle
    cycles,     \* cycles completed
    running,    \* Twitch.running
    chunk,      \* the sleeps done in the loop of lines 430-433
    late,       \* what the scheduler did while running was False
    pw_in,      \* a prediction_window_seconds read from an event-created
    pw_out,     \* the window handed to EventPrediction
    tmr,        \* one event-created frame's Timer, on the clock
    sync        \* sync_drops_campaigns: its locals, the clock, its requests

poolVars == <<ws, conn, thr, mainLeft, mainNext, faults, resub>>

msgVars == <<rdr, last, events_predictions, timers, betting, routed, calls,
             caught, raised, armed>>

stopVars == <<running, chunk, late>>

watchVars == <<priority, wpc, wk, streamers_index, streamers_watching, sent,
               cycles, stopVars>>

winVars == <<pw_in, pw_out, tmr, sync>>

vars == <<poolVars, streamers, msgVars, watchVars, winVars>>

notPool == <<streamers, msgVars, watchVars, winVars>>

\* armed is written by ArmOrDelete alone.
notArm == <<poolVars, watchVars, winVars>>

notMsg == <<notArm, armed>>

notWatch == <<poolVars, msgVars, winVars>>

notWin == <<poolVars, streamers, msgVars, watchVars>>

\* ============================================================ the pool
None == 0

MainT == <<"main", 0>>
Rd(c) == <<"rd", c>>
Ka(c) == <<"ka", c>>

\* A thread: its position, the connection its handle_reconnection is for,
\* the callback it runs, the topics its re-submission loop has still to
\* submit, the topic of the submit call in progress, the value of is_opened
\* it read, the loop variables of end(), and whether an exception ended one
\* of its handlers.
Thread(pc, c, cb) ==
    [pc |-> pc, c |-> c, cb |-> cb, todo |-> EmptyBag, topic |-> 0,
     seen |-> FALSE, i |-> 0, n |-> 0, err |-> FALSE]

\* TwitchWebSocket.__init__: the fields the pool reads and writes.
\* pending_topics holds the queued topics no LISTEN was sent for yet, listened
\* the LISTEN requests sent on the connection; sock_closed tells whether
\* close() was called on it.
NewSocket ==
    [topics |-> EmptyBag, pending_topics |-> EmptyBag, listened |-> EmptyBag,
     is_opened |-> FALSE, is_closed |-> FALSE, forced_close |-> FALSE,
     is_reconneting |-> FALSE, keep_running |-> TRUE, sock_closed |-> FALSE]

One(t) == SetToBag({t})

Size(B) == BagCardinality(B)

\* The first topic of a frozen topic list, in the model's ascending order.
NextTopic(B) == CHOOSE x \in BagToSet(B) : \A y \in BagToSet(B) : x <= y

TailSlot == ws[Len(ws)]

\* self.ws[-1] is None: the next attribute access raises AttributeError.
TailIsNone == ws # <<>> /\ TailSlot = None

\* An exception leaves the handler the thread was running: the main thread
\* dies, a reader goes on after the callback, a keepalive thread ends.
Raise(r) ==
    [r EXCEPT !.err = TRUE, !.todo = EmptyBag,
              !.pc = CASE r.cb = "main"  -> "m_crashed"
                       [] r.cb = "msg"   -> "r_run"
                       [] r.cb = "close" -> "r_done"
                       [] OTHER          -> "k_exit"]

\* handle_reconnection returns to the callback that called it, or to the
\* keepalive loop, whose test "while not ws.is_closed" then ends the thread.
HrReturn(r) ==
    [r EXCEPT !.todo = EmptyBag,
              !.pc = CASE r.cb = "msg"   -> "r_run"
                       [] r.cb = "close" -> "r_done"
                       [] OTHER          -> "k_exit"]

\* "for topic in ws.topics: self.submit(topic)": the next call, or the end.
HrLoop(r) ==
    IF r.todo = EmptyBag THEN HrReturn(r)
    ELSE [r EXCEPT !.pc = "s_check", !.topic = NextTopic(r.todo),
                   !.todo = r.todo (-) One(NextTopic(r.todo))]

HrResub(r) ==
    IF r.todo = EmptyBag THEN resub
    ELSE [resub EXCEPT ![r.c] = @ (+) One(NextTopic(r.todo))]

\* submit returned: the caller goes on.
SubmitReturn(t) ==
    /\ thr' = [thr EXCEPT ![t] = IF t = MainT THEN [@ EXCEPT !.pc = "m_idle"]
                                  ELSE HrLoop(@)]
    /\ resub' = IF t = MainT THEN resub ELSE HrResub(thr[t])

\* ---- submit, line 41: "if self.ws == [] or len(self.ws[-1].topics) >= 50"
SubmitFull(w, cn) == w = <<>> \/ Size(cn[w[Len(w)]].topics) >= TopicCap

SubmitCheck(t) ==
    /\ thr[t].pc = "s_check"
    /\ thr' = [thr EXCEPT ![t] =
                 IF TailIsNone THEN Raise(@)
                 ELSE IF SubmitFull(ws, conn) THEN [@ EXCEPT !.pc = "s_new"]
                 ELSE [@ EXCEPT !.pc = "s_append"]]
    /\ UNCHANGED <<notPool, ws, conn, mainLeft, mainNext, faults, resub>>

\* ---- append_new_websocket: a new connection at the tail, its reader thread
\* started; the keepalive thread exists once on_open has run.  (The reader's
\* target reads self.ws[-1] when it starts; the model binds it to the
\* connection just appended.)
AppendNewWebsocket(t) ==
    /\ thr[t].pc = "s_new"
    /\ LET id == Len(ws) + 1 IN
       /\ ws' = Append(ws, id)
       /\ conn' = Append(conn, NewSocket)
       /\ resub' = Append(resub, EmptyBag)
       /\ thr' = [thr EXCEPT ![t].pc = "s_append"]
                   @@ (Rd(id) :> Thread("r_wait", id, "none"))
                   @@ (Ka(id) :> Thread("k_none", id, "ka"))
    /\ UNCHANGED <<notPool, mainLeft, mainNext, faults>>

\* ---- submit, line 44: "self.ws[-1].topics.append(topic)"
SubmitAppend(t) ==
    /\ thr[t].pc = "s_append"
    /\ IF TailIsNone
       THEN /\ thr' = [thr EXCEPT ![t] = Raise(@)]
            /\ conn' = conn
       ELSE /\ conn' = [conn EXCEPT ![TailSlot].topics = @ (+) One(thr[t].topic)]
            /\ thr' = [thr EXCEPT ![t].pc = "s_isopen"]
    /\ UNCHANGED <<notPool, ws, mainLeft, mainNext, faults, resub>>

\* ---- submit, line 46: "if self.ws[-1].is_opened is False"
SubmitIsOpened(t) ==
    /\ thr[t].pc = "s_isopen"
    /\ thr' = [thr EXCEPT ![t] =
                 IF TailIsNone THEN Raise(@)
                 ELSE [@ EXCEPT !.seen = conn[TailSlot].is_opened,
                                !.pc = IF conn[TailSlot].is_opened
                                       THEN "s_listen" ELSE "s_pend"]]
    /\ UNCHANGED <<notPool, ws, conn, mainLeft, mainNext, faults, resub>>

\* ---- submit, line 47: "self.ws[-1].pending_topics.append(topic)"
SubmitPend(t) ==
    /\ thr[t].pc = "s_pend"
    /\ IF TailIsNone
       THEN /\ thr' = [thr EXCEPT ![t] = Raise(@)]
            /\ conn' = conn
            /\ resub' = resub
       ELSE /\ conn' = [conn EXCEPT ![TailSlot].pending_topics =
                                        @ (+) One(thr[t].topic)]
            /\ SubmitReturn(t)
    /\ UNCHANGED <<notPool, ws, mainLeft, mainNext, faults>>

\* ---- submit, line 49: "self.ws[-1].listen(topic, ...)"
SubmitListen(t) ==
    /\ thr[t].pc = "s_listen"
    /\ IF TailIsNone
       THEN /\ thr' = [thr EXCEPT ![t] = Raise(@)]
            /\ conn' = conn
            /\ resub' = resub
       ELSE /\ conn' = [conn EXCEPT ![TailSlot].listened = @ (+) One(thr[t].topic)]
            /\ SubmitReturn(t)
    /\ UNCHANGED <<notPool, ws, mainLeft, mainNext, faults>>

\* ---- the main thread: the start-up loop that subscribes the topics
MainSubmit ==
    /\ thr[MainT].pc = "m_idle"
    /\ mainLeft > 0
    /\ thr' = [thr EXCEPT ![MainT].pc = "s_check", ![MainT].topic = mainNext]
    /\ mainLeft' = mainLeft - 1
    /\ mainNext' = mainNext + 1
    /\ UNCHANGED <<notPool, ws, conn, faults, resub>>

\* ---- end(): "for index in range(0, len(self.ws))"
EndStart ==
    /\ thr[MainT].pc = "m_idle"
    /\ mainLeft = 0
    /\ thr' = [thr EXCEPT ![MainT].pc = "e_test", ![MainT].i = 1,
                          ![MainT].n = Len(ws)]
    /\ UNCHANGED <<notPool, ws, conn, mainLeft, mainNext, faults, resub>>

\* lines 71-73: "if self.ws[index] is not None: self.ws[index].forced_close
\* = True; self.ws[index].close()", one index of the loop per step.
EndStep ==
    /\ thr[MainT].pc = "e_test"
    /\ LET i == thr[MainT].i IN
       IF i > thr[MainT].n
       THEN /\ thr' = [thr EXCEPT ![MainT].pc = "m_ended"]
            /\ conn' = conn
       ELSE /\ thr' = [thr EXCEPT ![MainT].i = @ + 1]
            /\ conn' = IF ws[i] = None THEN conn
                       ELSE [conn EXCEPT ![ws[i]].forced_close = TRUE,
                                         ![ws[i]].sock_closed = TRUE]
    /\ UNCHANGED <<notPool, ws, mainLeft, mainNext, faults, resub>>

\* ---- the transport opens: on_open starts the keepalive thread, which runs
\* lines 78-83: "ws.is_opened = True", the loop that sends a LISTEN for every
\* queued topic, and the first test of "while not ws.is_closed".  Nothing
\* reads pending_topics after this loop: the entries it has sent are dropped.
OnOpen(c) ==
    /\ thr[Rd(c)].pc = "r_wait"
    /\ ~conn[c].sock_closed
    /\ conn' = [conn EXCEPT ![c].is_opened = TRUE,
                            ![c].listened = @ (+) conn[c].pending_topics,
                            ![c].pending_topics = EmptyBag]
    /\ thr' = [thr EXCEPT ![Rd(c)].pc = "r_run",
                          ![Ka(c)].pc = "k_sleep"]
    /\ UNCHANGED <<notPool, ws, mainLeft, mainNext, faults, resub>>

\* ---- handle_reconnection, lines 112-115, entered by thread t for
\* connection c from callback cb: the connection is marked closed; the
\* cooldown starts unless the close was forced.
HrEnter(t, c, cb) ==
    /\ conn' = [conn EXCEPT ![c].is_closed = TRUE, ![c].keep_running = FALSE,
                            ![c].is_reconneting = (cb # "close") \/ @]
    /\ thr' = [thr EXCEPT ![t] =
                 IF conn[c].forced_close THEN HrReturn([@ EXCEPT !.cb = cb])
                 ELSE [@ EXCEPT !.cb = cb, !.pc = "hr_sleep"]]

\* ---- on_open.run, lines 83-92: the keepalive loop.  After a sleep the last
\* PONG is stale and no reconnection is under way: "ws.is_reconneting = True;
\* handle_reconnection(ws)".  (A sleep that finds the PONG fresh changes
\* nothing; a loop test that finds the connection closed ends the thread,
\* which the model leaves in k_sleep.)
KaStale(c) ==
    /\ thr[Ka(c)].pc = "k_sleep"
    /\ ~conn[c].is_reconneting
    /\ faults < MaxFaults
    /\ faults' = faults + 1
    /\ HrEnter(Ka(c), c, "ka")
    /\ UNCHANGED <<notPool, ws, mainLeft, mainNext, resub>>

\* ---- on_message, lines 330-333: a RECONNECT frame: "ws.is_reconneting =
\* True; handle_reconnection(ws)".
OnReconnectFrame(c) ==
    /\ thr[Rd(c)].pc = "r_run"
    /\ conn[c].keep_running
    /\ ~conn[c].sock_closed
    /\ faults < MaxFaults
    /\ faults' = faults + 1
    /\ HrEnter(Rd(c), c, "msg")
    /\ UNCHANGED <<notPool, ws, mainLeft, mainNext, resub>>

\* ---- on_close, lines 103-106: the transport dropped, close() was called
\* on the connection, or run_forever saw keep_running False.
OnClose(c) ==
    /\ thr[Rd(c)].pc \in {"r_wait", "r_run"}
    /\ \/ /\ ~conn[c].keep_running \/ conn[c].sock_closed
          /\ faults' = faults
       \/ /\ conn[c].keep_running /\ ~conn[c].sock_closed
          /\ faults < MaxFaults
          /\ faults' = faults + 1
    /\ HrEnter(Rd(c), c, "close")
    /\ UNCHANGED <<notPool, ws, mainLeft, mainNext, resub>>

\* ---- handle_reconnection, lines 119-124: the cooldown is over; the slot
\* becomes None and the loop over ws.topics starts.
HrRemove(t) ==
    /\ thr[t].pc = "hr_sleep"
    /\ LET c == thr[t].c
           r == [thr[t] EXCEPT !.todo = conn[c].topics]
       IN  /\ ws' = [ws EXCEPT ![c] = None]
           /\ thr' = [thr EXCEPT ![t] = HrLoop(r)]
           /\ resub' = HrResub(r)
    /\ UNCHANGED <<notPool, conn, mainLeft, mainNext, faults>>

\* ====================================================== the dispatcher
\* WebSocketsPool.on_message for MESSAGE frames, on the reader threads of
\* NumWs connections, over the frames below.
MsgConns == {1, 2}

\* The streamer at index i has channel id i + 1.
ChannelId(i) == i + 1

\* The dispatcher tracks one streamer; channel 2 is not tracked.
MsgStreamers == {0}

MsgChannels == {1, 2}

Times == {0, 125, 126}

Windows == {150, 300}

EventIds == {1, 2}

\* A decoded MESSAGE frame.  won is <<>> for a null points_won; missing says
\* that a payload field the topic's handler reads is absent.
Msg(kind, ch, ts, ev, w, st, rc) ==
    [kind |-> kind, channel |-> ch, ts |-> ts, event |-> ev, window |-> w,
     created_at |-> 0, status |-> st, reason |-> rc, balance |-> 10,
     outcomes |-> 0, won |-> <<>>, current |-> 0, required |-> 0, drop |-> 0,
     raid |-> 0, missing |-> FALSE]

NoMsg == Msg("none", 0, 0, 0, 0, "none", "none")

\* The decoded MESSAGE frames the provider sends.
Frames ==
    {Msg("points-earned", ch, ts, 0, 0, "none", rc) :
        ch \in MsgChannels, ts \in Times, rc \in {"WATCH", "WATCH_STREAK"}}
    \cup {Msg("stream-down", ChannelId(0), ts, 0, 0, "none", "none") : ts \in Times}
    \cup {Msg("event-created", ChannelId(0), ts, ev, w, "ACTIVE", "none") :
             ts \in Times, ev \in EventIds, w \in Windows}
    \cup {Msg("event-created", ChannelId(0), 0, ev, 150, "LOCKED", "none") :
             ev \in EventIds}
    \cup {Msg("event-updated", ChannelId(0), ts, ev, 0, "LOCKED", "none") :
             ts \in Times, ev \in EventIds}

\* Message.topic of a frame.
Topic(m) ==
    CASE m.kind \in {"points-earned", "claim-available"}
            -> "community-points-user-v1"
      [] m.kind \in {"stream-up", "stream-down", "viewcount"}
            -> "video-playback-by-id"
      [] m.kind \in {"prediction-result", "prediction-made"}
            -> "predictions-user-v1"
      [] m.kind = "drop-progress" -> "user-drop-events"
      [] m.kind \in {"raid-update", "raid-go"} -> "raid"
      [] OTHER                    -> "predictions-channel-v1"

\* Message.identifier: the topic class and the channel id.
Identifier(m) == <<Topic(m), m.channel>>

NoKey == [ts |-> -1, id |-> <<>>]

\* lines 137-142: the frame repeats the connection's last message.
DuplicateTsOnly(l, m) ==
    /\ l # NoKey
    /\ l.ts = m.ts

Duplicate(l, m) ==
    /\ l # NoKey
    /\ l.ts = m.ts
    /\ l.id = Identifier(m)

\* utils.get_streamer_index: the index of the channel, or -1.
GetStreamerIndex(ch) ==
    IF \E i \in DOMAIN streamers : ChannelId(i) = ch
    THEN CHOOSE i \in DOMAIN streamers : ChannelId(i) = ch
    ELSE -1

\* line 149: "if streamer_index != -1".
RoutableAlways(i) == TRUE

Routable(i) == i # -1

\* "ws.streamers[streamer_index]": a negative index counts from the end of
\* the list.
At(i) == IF i < 0 THEN Cardinality(DOMAIN streamers) + i ELSE i

\* Streamer.update_history, lines 144-151.
UpdateHistoryCountOnly(s, reason_code) == [s EXCEPT !.history = @ + 1]

UpdateHistory(s, reason_code) ==
    [s EXCEPT !.history = @ + 1,
              !.watch_streak_missing = IF reason_code = "WATCH_STREAK"
                                       THEN FALSE ELSE @]

\* Streamer.set_offline, lines 106-110.
SetOfflineAlways(s) == [s EXCEPT !.offline_at = Now, !.is_online = FALSE]

SetOffline(s) ==
    IF s.is_online THEN [s EXCEPT !.offline_at = Now, !.is_online = FALSE]
    ELSE s

\* Stream.init_watch_streak: the stream session starts again.
InitWatchStreak(s) ==
    [s EXCEPT !.watch_streak_missing = TRUE, !.minute_watched = 0]

\* Streamer.set_online, lines 120-125.
SetOnline(s) ==
    IF ~s.is_online
    THEN InitWatchStreak([s EXCEPT !.online_at = Now, !.is_online = TRUE])
    ELSE s

\* Twitch.update_raid, line 473: "if streamer.raid != raid", a Raid being
\* the value of its raid id and None the raid 0.
RaidDiffersAlways(s, raid) == TRUE

RaidDiffers(s, raid) == s.raid # raid

\* Streamer.stream_up_elapsed, lines 153-154.
StreamUpElapsed(s) == s.stream_up = 0 \/ (Now - s.stream_up) > 120

\* The outcomes of a call on ws.twitch: it returns what was asked for
\* ("ok"), it returns a null value ("null"), it raises the typed failure of
\* the operation ("domain": StreamerIsOfflineException,
\* TimeBasedDropNotFound), or the request itself fails ("error").
RemoteOutcomes == {"ok", "null", "domain", "error"}

\* Twitch.update_stream, lines 49-58, as check_streamer_online sees it:
\* get_stream_info returned the stream ("ok"), update_required() was not
\* True and nothing was requested ("cached"), get_stream_info raised
\* StreamerIsOfflineException ("domain"), or the request failed ("error").
UpdateStreamOutcomes == {"ok", "cached", "domain", "error"}

\* Twitch.check_streamer_online, lines 123-139, with the outcome of
\* update_stream.
CheckStreamerOnline(s, remote) ==
    IF Now < s.offline_at + 60 THEN s
    ELSE IF ~s.is_online
    THEN (IF remote = "domain" THEN SetOffline(s) ELSE SetOnline(s))
    ELSE (IF remote = "domain" THEN SetOffline(s) ELSE s)

\* The positional parameters of Twitch.claim_drop after self (Twitch.py line
\* 153: "def claim_drop(self, drop)"), and the arguments on_message passes
\* (lines 304-307: the instance id and the streamer).
ClaimDropParams == <<"drop">>

ClaimDropArgs == <<"dropInstanceID", "streamer">>

\* The call of a method with the wrong number of arguments raises TypeError
\* before the body runs.
ClaimDropResult ==
    IF Len(ClaimDropArgs) = Len(ClaimDropParams) THEN "none" ELSE "TypeError"

\* A call on ws.twitch made for frame m, and how it ended.
Call(op, m, result) ==
    [op |-> op, channel |-> m.channel, ts |-> m.ts, drop |-> m.drop,
     raid |-> m.raid, event |-> m.event, status |-> "none", skip |-> FALSE, transaction |-> 0,
     result |-> result]

\* "points_won if points_won else 0", lines 281-285.
PointsWon(v) == IF v = <<>> THEN 0 ELSE v[1]

\* lines 210-218: the EventPrediction built from an event-created frame.
\* decision is 0 while bet.decision is {}; final_result is <<>> until a
\* result is recorded.
EffectiveWindowLt(w) == w - (IF w < 180 THEN 25 ELSE 60)

EffectiveWindow(w) == w - (IF w <= 180 THEN 25 ELSE 60)

NewEvent(i, m) ==
    [streamer |-> i, event_id |-> m.event, created_at |-> m.created_at,
     prediction_window_seconds |-> EffectiveWindow(m.window),
     status |-> m.status, bet_placed |-> FALSE, outcomes |-> m.outcomes,
     decision |-> 0, bet_confirmed |-> FALSE, final_result |-> <<>>]

\* EventPrediction.closing_bet_after: the seconds left, at timestamp ts, of
\* the window the event was built with.
ClosingBetAfter(ev, ts) == ev.prediction_window_seconds - (ts - ev.created_at)

\* utils.bet_condition: no bet while the browser is busy with another one.
BetCondition == ~betting

\* lines 219-228: the event is tracked and a bet started.
BetAllowedGe(i, ev, ts) ==
    /\ streamers[i].is_online
    /\ ClosingBetAfter(ev, ts) >= 0
    /\ BetCondition

BetAllowed(i, ev, ts) ==
    /\ streamers[i].is_online
    /\ ClosingBetAfter(ev, ts) > 0
    /\ BetCondition

\* line 203: "if event_status == \"ACTIVE\"".
IsActiveAny(status) == TRUE

IsActive(status) == status = "ACTIVE"

\* line 236: "if start_bet_status is True".
ShouldArmAlways(status) == TRUE

ShouldArm(status) == status = TRUE

\* lines 264-267: "bet_placed is False and bet.decision == {}".
MayRefreshUnplaced(ev) == ~ev.bet_placed

MayRefresh(ev) == ~ev.bet_placed /\ ev.decision = 0

\* lines 258-270: an event-updated frame for the tracked event ev.
EventUpdated(ev, m) ==
    LET e == [ev EXCEPT !.status = m.status] IN
    IF MayRefresh(e) THEN [e EXCEPT !.outcomes = m.outcomes] ELSE e

\* lines 275-291: a prediction-result or prediction-made frame for the
\* tracked event ev.
PredictionUser(ev, m) ==
    IF m.kind = "prediction-result"
    THEN [ev EXCEPT !.final_result = <<[type |-> m.status,
                                        won |-> PointsWon(m.won)]>>]
    ELSE IF m.kind = "prediction-made"
    THEN [ev EXCEPT !.bet_confirmed = TRUE]
    ELSE ev

\* line 321: "except Exception" catches every exception a handler raises.
CatchesKeyErrorOnly(exc) == exc = "KeyError"

Catches(exc) == exc \in {"KeyError", "TypeError", "RequestException"}

Reader == [pc |-> "idle", m |-> NoMsg, n |-> 0, start_bet_status |-> FALSE]

FramesSeen == rdr[1].n + rdr[2].n

Tracked == DOMAIN events_predictions

Without(f, e) == [x \in DOMAIN f \ {e} |-> f[x]]

\* The handler of reader c is over.
HandlerOver(c) == rdr' = [rdr EXCEPT ![c].pc = "idle"]

\* What a topic handler leaves: the streamers, the tracked events, the calls
\* it made on ws.twitch and the exception it ended with ("none" when it
\* returned).
Handled(st, ev, cl, exc) ==
    [streamers |-> st, events |-> ev, calls |-> cl, exc |-> exc]

\* lines 151-319 for frame m of the streamer at index i, the calls on
\* ws.twitch ending as remote says, up to the test of line 219 for an
\* event-created.  A missing payload field raises KeyError where the handler
\* reads it: before the handler changed anything.
Handle(i, m, remote) ==
    LET same == Handled(streamers, events_predictions, <<>>, "none")
        failed == IF remote = "error" THEN "RequestException" ELSE "none"
    IN
    IF m.missing THEN [same EXCEPT !.exc = "KeyError"]
    ELSE CASE m.kind = "points-earned" ->
              [same EXCEPT !.streamers = [streamers EXCEPT ![At(i)] =
                  UpdateHistory([@ EXCEPT !.channel_points = m.balance],
                                m.reason)]]
           [] m.kind = "claim-available" ->
              [same EXCEPT !.calls = <<Call("claim_bonus", m, failed)>>,
                           !.exc = failed]
           [] m.kind = "stream-up" ->
              [same EXCEPT !.streamers =
                  [streamers EXCEPT ![At(i)].stream_up = Now]]
           [] m.kind = "stream-down" ->
              [same EXCEPT !.streamers =
                  [streamers EXCEPT ![At(i)] = SetOffline(@)]]
           [] m.kind = "viewcount" ->
              IF ~StreamUpElapsed(streamers[At(i)]) THEN same
              ELSE IF Now < streamers[At(i)].offline_at + 60
              THEN [same EXCEPT
                      !.calls = <<Call("check_streamer_online", m, "none")>>]
              ELSE [same EXCEPT
                      !.calls = <<[Call("check_streamer_online", m, failed)
                                     EXCEPT !.status = IF remote = "cached"
                                                       THEN "cached" ELSE "none"]>>,
                      !.exc = failed,
                      !.streamers =
                          IF remote = "error" THEN streamers
                          ELSE [streamers EXCEPT ![At(i)] =
                                   CheckStreamerOnline(@, remote)]]
           [] m.kind = "raid-update" ->
              IF ~RaidDiffers(streamers[At(i)], m.raid) THEN same
              ELSE [same EXCEPT
                      !.streamers = [streamers EXCEPT ![At(i)].raid = m.raid],
                      !.calls = <<Call("JoinRaid", m, failed)>>,
                      !.exc = failed]
           [] m.kind = "event-updated" ->
              IF m.event \notin Tracked THEN same
              ELSE [same EXCEPT !.events =
                      [events_predictions EXCEPT ![m.event] =
                          EventUpdated(@, m)]]
           [] m.kind \in {"prediction-result", "prediction-made"} ->
              IF m.event \notin Tracked THEN same
              ELSE [same EXCEPT !.events =
                      [events_predictions EXCEPT ![m.event] =
                          PredictionUser(@, m)]]
           [] m.kind = "drop-progress" ->
              IF m.current < m.required THEN same
              ELSE IF remote = "error"
              THEN [same EXCEPT
                      !.calls = <<Call("search_drop_in_inventory", m,
                                       "RequestException")>>,
                      !.exc = "RequestException"]
              ELSE IF remote = "domain"
              THEN [same EXCEPT
                      !.calls = <<Call("search_drop_in_inventory", m,
                                       "TimeBasedDropNotFound")>>]
              ELSE IF remote = "null"
              THEN [same EXCEPT
                      !.calls = <<Call("search_drop_in_inventory", m, "none")>>]
              ELSE [same EXCEPT
                      !.calls = <<Call("search_drop_in_inventory", m, "none"),
                                  Call("claim_drop", m, ClaimDropResult)>>,
                      !.exc = ClaimDropResult]
           [] OTHER -> same

\* ---- on_message, lines 131-229 and 258-325 for a MESSAGE frame m on
\* connection c: the duplicate check, the last-message key, the lookup of
\* the channel and the topic's handler, up to the test of line 219 for an
\* event-created; remote is the outcome of the handler's call on ws.twitch.
OnMessage(c, m, remote) ==
    /\ rdr[c].pc = "idle"
    /\ FramesSeen < MaxFrames
    /\ LET r == [rdr[c] EXCEPT !.m = m, !.n = @ + 1]
           i == GetStreamerIndex(m.channel)
       IN
       IF Duplicate(last[c], m)
       THEN /\ rdr' = [rdr EXCEPT ![c] = r]
            /\ UNCHANGED <<last, routed, streamers, events_predictions, calls,
                           caught, raised>>
       ELSE /\ last' = [last EXCEPT ![c] = [ts |-> m.ts, id |-> Identifier(m)]]
            /\ routed' = routed + 1
            /\ IF ~Routable(i)
               THEN /\ rdr' = [rdr EXCEPT ![c] = r]
                    /\ UNCHANGED <<streamers, events_predictions, calls,
                                   caught, raised>>
               ELSE LET h == Handle(i, m, remote) IN
                    /\ streamers' = h.streamers
                    /\ events_predictions' = h.events
                    /\ calls' = calls \o h.calls
                    /\ caught' = IF h.exc # "none" /\ Catches(h.exc)
                                 THEN [caught EXCEPT ![c] = @ + 1] ELSE caught
                    /\ raised' = IF h.exc # "none" /\ ~Catches(h.exc)
                                 THEN [raised EXCEPT ![c] = @ + 1] ELSE raised
                    /\ rdr' = [rdr EXCEPT ![c] =
                         IF /\ ~m.missing
                            /\ m.kind = "event-created"
                            /\ m.event \notin Tracked
                            /\ IsActive(m.status)
                            /\ BetAllowed(At(i), NewEvent(At(i), m), m.ts)
                         THEN [r EXCEPT !.pc = "m_insert"]
                         ELSE r]
    /\ UNCHANGED <<timers, betting, notMsg>>

\* ---- on_message, lines 327-328: a RESPONSE frame on connection c, whose
\* "error" is absent, empty or a provider error.
Errors == {"absent", "empty", "ERR_BADTOPIC"}

\* len(response.get("error", "")).
ErrorLength(e) == IF e \in {"absent", "empty"} THEN 0 ELSE 12

HasErrorPresent(e) == e # "absent"

HasError(e) == ErrorLength(e) > 0

OnResponse(c, e) ==
    /\ rdr[c].pc = "idle"
    /\ FramesSeen < MaxFrames
    /\ rdr' = [rdr EXCEPT ![c].m = [NoMsg EXCEPT !.kind = "RESPONSE",
                                                 !.reason = e],
                          ![c].n = @ + 1]
    /\ raised' = IF HasError(e) THEN [raised EXCEPT ![c] = @ + 1] ELSE raised
    /\ UNCHANGED <<last, events_predictions, timers, betting, routed, calls,
                   caught, streamers, notMsg>>

\* ---- line 229: "ws.events_predictions[event_id] = event"
Insert(c) ==
    /\ rdr[c].pc = "m_insert"
    /\ LET m == rdr[c].m IN
       events_predictions' =
          (m.event :> NewEvent(GetStreamerIndex(m.channel), m))
             @@ events_predictions
    /\ rdr' = [rdr EXCEPT ![c].pc = "m_start_bet"]
    /\ UNCHANGED <<last, timers, betting, routed, calls, caught, raised,
                   streamers, notMsg>>

\* ---- lines 230-235: browser.start_bet on the tracked event: it takes the
\* browser unless another bet holds it, and computes the decision of the
\* bet.  A KeyError (the event was deleted meanwhile) is caught at line 321.
StartBet(c) ==
    /\ rdr[c].pc = "m_start_bet"
    /\ LET e == rdr[c].m.event IN
       IF e \notin Tracked
       THEN /\ HandlerOver(c)
            /\ caught' = [caught EXCEPT ![c] = @ + 1]
            /\ UNCHANGED <<betting, events_predictions>>
       ELSE /\ rdr' = [rdr EXCEPT ![c].pc = "m_status",
                                  ![c].start_bet_status = ~betting]
            /\ events_predictions' =
                 [events_predictions EXCEPT ![e].decision =
                     IF ~betting /\ @ = 0 THEN 1 ELSE @]
            /\ betting' = TRUE
            /\ caught' = caught
    /\ UNCHANGED <<last, timers, routed, calls, raised, streamers, notMsg>>

\* ---- lines 236-256: the Timer for place_bet is started, or the event is
\* deleted again.
ArmOrDelete(c) ==
    /\ rdr[c].pc = "m_status"
    /\ LET e == rdr[c].m.event IN
       IF e \notin Tracked
       THEN /\ caught' = [caught EXCEPT ![c] = @ + 1]
            /\ UNCHANGED <<timers, armed, events_predictions>>
       ELSE IF ShouldArm(rdr[c].start_bet_status)
       THEN /\ timers' = timers (+) One(e)
            /\ armed' = armed (+) One(e)
            /\ UNCHANGED <<events_predictions, caught>>
       ELSE /\ events_predictions' = Without(events_predictions, e)
            /\ UNCHANGED <<timers, armed, caught>>
    /\ HandlerOver(c)
    /\ UNCHANGED <<last, betting, routed, calls, raised, streamers, notArm>>

\* ---- the Timer fires: browser.place_bet on the event, which submits the
\* decision while the event is ACTIVE and releases the browser.
PlaceBet ==
    /\ \E e \in BagToSet(timers) :
          /\ timers' = timers (-) One(e)
          /\ events_predictions' =
               IF e \in Tracked
               THEN [events_predictions EXCEPT ![e].bet_placed =
                        (events_predictions[e].status = "ACTIVE") \/ @]
               ELSE events_predictions
    /\ betting' = FALSE
    /\ UNCHANGED <<rdr, last, routed, calls, caught, raised, streamers, notMsg>>

\* Twitch.make_predictions, lines 298-300: the request is sent for an ACTIVE
\* event the filter does not skip.
SendsPredictionAnyStatus(status, skip) == ~skip

SendsPrediction(status, skip) == status = "ACTIVE" /\ ~skip

\* "transactionID": token_hex(16), line 318: a token no earlier request
\* carries.
TokenHex ==
    1 + Cardinality({k \in 1..Len(calls) : calls[k].op = "MakePrediction"})

\* ---- the Timer fires Twitch.make_predictions (lines 290-328) on the event
\* object it was armed with; skip is what event.bet.skip() answers.  An
\* object that was deleted from the map meanwhile keeps the status it had.
MakePredictions(skip) ==
    /\ \E e \in BagToSet(timers) :
          \E status \in IF e \in Tracked THEN {events_predictions[e].status}
                         ELSE {"ACTIVE", "LOCKED"} :
             LET fired == [Call("make_predictions", NoMsg, "none") EXCEPT
                              !.event = e, !.status = status, !.skip = skip]
                 request == [fired EXCEPT !.op = "MakePrediction",
                                          !.transaction = TokenHex]
             IN /\ timers' = timers (-) One(e)
                /\ calls' = IF SendsPrediction(status, skip)
                            THEN calls \o <<fired, request>>
                            ELSE Append(calls, fired)
    /\ UNCHANGED <<rdr, last, events_predictions, betting, routed, caught,
                   raised, streamers, notMsg>>

\* A Streamer object, with the fields of its stream and settings.
NewStreamer ==
    [is_online |-> FALSE, online_at |-> 0, offline_at |-> 0, stream_up |-> 0,
     channel_points |-> 0, history |-> 0,
     watch_streak |-> TRUE, watch_streak_missing |-> TRUE, minute_watched |-> 0,
     claim_drops |-> TRUE, drops_tags |-> FALSE, drops_campaigns |-> 0,
     raid |-> 0]

\* The dispatcher before its first frame.
MsgStart ==
    /\ rdr = [c \in MsgConns |-> Reader]
    /\ last = [c \in MsgConns |-> NoKey]
    /\ events_predictions = <<>>
    /\ timers = EmptyBag
    /\ betting = FALSE
    /\ routed = 0
    /\ calls = <<>>
    /\ caught = [c \in MsgConns |-> 0]
    /\ raised = [c \in MsgConns |-> 0]
    /\ armed = EmptyBag

MsgInit ==
    /\ MsgStart
    /\ streamers \in {[i \in MsgStreamers |->
                         [NewStreamer EXCEPT !.is_online = b]] : b \in BOOLEAN}

MsgNext ==
    \/ \E c \in MsgConns, m \in Frames : OnMessage(c, m, "ok")
    \/ \E c \in MsgConns : Insert(c)
    \/ \E c \in MsgConns : StartBet(c)
    \/ \E c \in MsgConns : ArmOrDelete(c)
    \/ PlaceBet

\* ================================================= the watch scheduler
\* Twitch.send_minute_watched_events, one cycle of "while self.running".
WatchStreamers == {0, 1, 2, 3, 4}

Rules == {"ORDER", "STREAK", "DROPS"}

\* The configured Priority lists: the rules, each at most once.
Priorities ==
    {p \in UNION {[1..n -> Rules] : n \in 1..3} :
        \A a, b \in DOMAIN p : a # b => p[a] # p[b]}

\* An element of streamers_watching: an index, or a list of indexes.
AnIndex(i) == [list |-> FALSE, v |-> <<i>>]

AList(l) == [list |-> TRUE, v |-> l]

\* lines 340-344: online, and never set online or online for over 30 seconds.
Eligible(s) ==
    /\ s.is_online
    /\ (s.online_at = 0 \/ Now - s.online_at > 30)

IndexSeq == [k \in 1..Cardinality(DOMAIN streamers) |-> k - 1]

EligibleAt(i) == Eligible(streamers[i])

\* lines 337-345: the list comprehension.
StreamersIndex == SelectSeq(IndexSeq, EligibleAt)

\* "l[:2]"
FirstTwo(l) == SubSeq(l, 1, IF Len(l) < 2 THEN Len(l) ELSE 2)

\* lines 361-370
StreakCondition(s) ==
    /\ s.watch_streak
    /\ s.watch_streak_missing
    /\ (s.offline_at = 0 \/ ((Now - s.offline_at) \div 60) > 30)
    /\ s.minute_watched < 7

\* lines 382-386
DropsCondition(s) ==
    /\ s.claim_drops
    /\ s.drops_tags
    /\ s.drops_campaigns # 0

Qualifies(rule, i) ==
    IF rule = "STREAK" THEN StreakCondition(streamers[i])
    ELSE DropsCondition(streamers[i])

\* lines 360-376 and 379-403: "for index in streamers_index: if ...:
\* streamers_watching.append(index); if len(streamers_watching) == 2: break"
RECURSIVE ScanRule(_, _, _)
ScanRule(sw, idx, rule) ==
    IF idx = <<>> THEN sw
    ELSE IF Qualifies(rule, Head(idx))
    THEN IF Len(sw) + 1 = 2 THEN Append(sw, AnIndex(Head(idx)))
         ELSE ScanRule(Append(sw, AnIndex(Head(idx))), Tail(idx), rule)
    ELSE ScanRule(sw, Tail(idx), rule)

\* lines 349-403: one iteration of "for prior in priority".
ApplyRule(sw, idx, rule) ==
    IF Len(sw) > 2 THEN sw
    ELSE IF rule = "ORDER" THEN Append(sw, AList(FirstTwo(idx)))
    ELSE ScanRule(sw, idx, rule)

\* ---- lines 337-347
WatchIndex ==
    /\ wpc = "w_index"
    /\ streamers_index' = StreamersIndex
    /\ streamers_watching' = <<>>
    /\ sent' = <<>>
    /\ wk' = 1
    /\ wpc' = "w_prior"
    /\ UNCHANGED <<priority, cycles, streamers, notWatch, stopVars>>

\* ---- lines 348-403
WatchRule ==
    /\ wpc = "w_prior"
    /\ wk <= Len(priority)
    /\ streamers_watching' =
          ApplyRule(streamers_watching, streamers_index, priority[wk])
    /\ wk' = wk + 1
    /\ UNCHANGED <<priority, wpc, streamers_index, sent, cycles, streamers,
                   notWatch, stopVars>>

\* ---- line 409: "streamers_watching = streamers_watching[:2]"
WatchCut ==
    /\ wpc = "w_prior"
    /\ wk > Len(priority)
    /\ streamers_watching' = FirstTwo(streamers_watching)
    /\ wk' = 1
    /\ wpc' = "w_send"
    /\ UNCHANGED <<priority, streamers_index, sent, cycles, streamers,
                   notWatch, stopVars>>

\* lines 423-424: "if response.status_code == 204:
\* streamers[index].stream.update_minute_watched()"; a ConnectionError
\* leaves the try before line 423.
MinuteWatchedAnyStatus(result) == result # "ConnectionError"

MinuteWatched(result) == result = "204"

\* lines 415-426: the request for streamer i and what follows its result.
Post(i, result) ==
    /\ sent' = Append(sent, [index |-> i, result |-> result])
    /\ streamers' = IF MinuteWatched(result)
                    THEN [streamers EXCEPT ![i].minute_watched = @ + 1]
                    ELSE streamers

\* ---- lines 411-433: one iteration of "for index in streamers_watching".
\* "streamers[index]" with a list for index raises TypeError, which the
\* handler of line 425 does not catch: the scheduler's thread ends.
WatchSend ==
    /\ wpc = "w_send"
    /\ wk <= Len(streamers_watching)
    /\ LET x == streamers_watching[wk] IN
       IF x.list
       THEN /\ wpc' = "w_crashed"
            /\ UNCHANGED <<wk, sent, streamers>>
       ELSE \E result \in {"204", "500", "ConnectionError"} :
               /\ Post(x.v[1], result)
               /\ wk' = wk + 1
               /\ wpc' = wpc
    /\ UNCHANGED <<priority, streamers_index, streamers_watching, cycles,
                   notWatch, stopVars>>

\* ---- the same iteration in two parts, for the schedules in which
\* running is cleared meanwhile.  Lines 411-426: the request.
ChunkSize == 3

WatchPost ==
    /\ wpc = "w_send"
    /\ wk <= Len(streamers_watching)
    /\ LET x == streamers_watching[wk] IN
       IF x.list
       THEN /\ wpc' = "w_crashed"
            /\ UNCHANGED <<sent, streamers, chunk, late>>
       ELSE \E result \in {"204", "500", "ConnectionError"} :
               /\ Post(x.v[1], result)
               /\ wpc' = "w_sleep"
               /\ chunk' = 0
               /\ late' = IF running THEN late ELSE Append(late, "heartbeat")
    /\ UNCHANGED <<priority, wk, streamers_index, streamers_watching, cycles,
                   running, notWatch>>

\* ---- lines 429-433: "time.sleep(sleep_time); if self.running is False:
\* break"; the break leaves the loop of line 430 for the next element of
\* the loop of line 411.
WatchSleep ==
    /\ wpc = "w_sleep"
    /\ chunk' = chunk + 1
    /\ late' = IF running THEN late ELSE Append(late, "chunk")
    /\ IF ~running \/ chunk + 1 = ChunkSize
       THEN wk' = wk + 1 /\ wpc' = "w_send"
       ELSE wk' = wk /\ wpc' = wpc
    /\ UNCHANGED <<priority, streamers_index, streamers_watching, sent, cycles,
                   running, streamers, notWatch>>

\* ---- lines 435-436 and the end of the cycle.
WatchEnd ==
    /\ wpc = "w_send"
    /\ wk > Len(streamers_watching)
    /\ late' = IF streamers_watching = <<>> /\ ~running
               THEN Append(late, "sleep60") ELSE late
    /\ cycles' = cycles + 1
    /\ wpc' = "w_end"
    /\ UNCHANGED <<priority, wk, streamers_index, streamers_watching, sent,
                   running, chunk, streamers, notWatch>>

\* ---- line 331, "while self.running": the next cycle.
WatchAgain ==
    /\ wpc = "w_end"
    /\ running
    /\ cycles < MaxCycles
    /\ wpc' = "w_index"
    /\ UNCHANGED <<priority, wk, streamers_index, streamers_watching, sent,
                   cycles, streamers, notWatch, stopVars>>

\* ---- line 331: running is False, the scheduler returns.
WatchDone ==
    /\ wpc = "w_end"
    /\ ~running
    /\ wpc' = "w_done"
    /\ UNCHANGED <<priority, wk, streamers_index, streamers_watching, sent,
                   cycles, streamers, notWatch, stopVars>>

\* ---- the miner's shutdown clears Twitch.running.
Stop ==
    /\ running
    /\ running' = FALSE
    /\ UNCHANGED <<priority, wpc, wk, streamers_index, streamers_watching,
                   sent, cycles, chunk, late, streamers, notWatch>>

Small(S) == {X \in SUBSET S : Cardinality(X) <= MaxFlagged}

\* Five streamers: at most one offline, streamer 0 possibly set online 20
\* seconds ago, some with a missing watch streak, some with drops.
WatchInit ==
    /\ \E off \in {{}} \cup {{i} : i \in WatchStreamers},
          fresh \in {{}, {0}},
          streak \in Small(WatchStreamers),
          drops \in Small(WatchStreamers) :
          streamers = [i \in WatchStreamers |->
             [NewStreamer EXCEPT
                !.is_online = i \notin off,
                !.online_at = IF i \in fresh THEN Now - 20 ELSE 0,
                !.watch_streak_missing = i \in streak,
                !.drops_tags = i \in drops,
                !.drops_campaigns = IF i \in drops THEN 1 ELSE 0]]
    /\ priority \in Priorities
    /\ wpc = "w_index"
    /\ wk = 1
    /\ streamers_index = <<>>
    /\ streamers_watching = <<>>
    /\ sent = <<>>
    /\ cycles = 0
    /\ running = TRUE
    /\ chunk = 0
    /\ late = <<>>

WatchNext ==
    \/ WatchIndex
    \/ WatchRule
    \/ WatchCut
    \/ WatchSend
    \/ WatchEnd
    \/ WatchAgain

\* ============================================== the prediction window
\* lines 204-218 on one event-created frame: the window handed to
\* EventPrediction.
WindowInit ==
    /\ pw_in \in 0..MaxWindow
    /\ pw_out = [done |-> FALSE, window |-> 0]

ComputeWindow ==
    /\ ~pw_out.done
    /\ pw_out' = [done |-> TRUE, window |-> EffectiveWindow(pw_in)]
    /\ UNCHANGED <<pw_in, tmr, sync, notWin>>

\* ================================================ the Timer on the clock
\* lines 197-249 on one event-created frame, with the clock: the frame
\* carries the timestamp ts, the handler reaches line 243 "delay" seconds
\* after ts, and the Timer counts start_after seconds from there.
MaxDelay == 3

ExecutionTimes == {0, 5}

TimerOff ==
    [pc |-> "t_off", window |-> 0, ts |-> 0, delay |-> 0,
     execution_time |-> 0, closes_at |-> 0, start_after |-> 0, fire_at |-> 0]

\* lines 210-218 and 197: the event of the frame (created_at 0) and the
\* frame's timestamp.
TimerEvent(w) ==
    NewEvent(0, Msg("event-created", 1, 0, 1, w, "ACTIVE", "none"))

TimerInit ==
    \E w \in Windows, ts \in Times, d \in 0..MaxDelay, x \in ExecutionTimes :
       tmr = [TimerOff EXCEPT !.pc = "t_created", !.window = w, !.ts = ts,
                              !.delay = d, !.execution_time = x,
                              !.closes_at = TimerEvent(w).created_at
                                  + TimerEvent(w).prediction_window_seconds]

\* utils.calculate_start_after(closing_bet_after, execution_time): a delay
\* no larger than the time left it is given and never negative; the time
\* left less the time start_bet took is one of them.
CalculateStartAfter(closing_bet_after, execution_time) ==
    {x \in {0, closing_bet_after - execution_time, closing_bet_after} :
        0 <= x /\ x <= closing_bet_after}

\* lines 219-221: "event.closing_bet_after(current_tmsp) > 0", else the
\* frame is dropped.
TimerCheck ==
    /\ tmr.pc = "t_created"
    /\ tmr' = [tmr EXCEPT !.pc =
                  IF ClosingBetAfter(TimerEvent(tmr.window), tmr.ts) > 0
                  THEN "t_started" ELSE "t_dropped"]
    /\ UNCHANGED <<pw_in, pw_out, sync, notWin>>

\* lines 238-249: start_after from the frame's timestamp, the Timer started
\* at the clock's ts + delay.
TimerArm ==
    /\ tmr.pc = "t_started"
    /\ \E x \in CalculateStartAfter(
                    ClosingBetAfter(TimerEvent(tmr.window), tmr.ts),
                    tmr.execution_time) :
          tmr' = [tmr EXCEPT !.pc = "t_armed", !.start_after = x,
                             !.fire_at = tmr.ts + tmr.delay + x]
    /\ UNCHANGED <<pw_in, pw_out, sync, notWin>>

\* threading.Timer: the function runs start_after seconds after start().
TimerFire ==
    /\ tmr.pc = "t_armed"
    /\ tmr' = [tmr EXCEPT !.pc = "t_fired"]
    /\ UNCHANGED <<pw_in, pw_out, sync, notWin>>

TimerNext ==
    \/ TimerCheck
    \/ TimerArm
    \/ TimerFire

\* ============================================= the campaign sync loop
\* Twitch.sync_drops_campaigns, lines 200-273: campaigns_update and
\* campaigns are its locals; dashboard and inventory are the clock values
\* of its ViewerDropsDashboard and Inventory requests; built is the value
\* of campaigns each reading of the inventory worked with.
MaxSync == 3

SyncOff ==
    [pc |-> "s_off", clock |-> 0, campaigns_update |-> 0, campaigns |-> 0,
     dashboard |-> <<>>, inventory |-> <<>>, built |-> <<>>, iter |-> 0]

\* line 201, at the clock's Now.
SyncInit ==
    sync = [SyncOff EXCEPT !.pc = "s_while", !.clock = Now]

\* line 204: "campaigns_update == 0 or ((time.time() - campaigns_update)
\* / 60) > 30".
DashboardDue(s) ==
    s.campaigns_update = 0 \/ (s.clock - s.campaigns_update) > 30 * 60

\* lines 202-219: "while self.running", and the dashboard when it is due:
\* the list campaigns built from the n campaigns it returns.
SyncDashboard ==
    /\ sync.pc = "s_while"
    /\ sync.iter < MaxSync
    /\ IF DashboardDue(sync)
       THEN \E n \in 0..2 :
               sync' = [sync EXCEPT !.pc = "s_inventory",
                                    !.campaigns = n,
                                    !.dashboard = Append(@, sync.clock)]
       ELSE sync' = [sync EXCEPT !.pc = "s_inventory"]
    /\ UNCHANGED <<pw_in, pw_out, tmr, notWin>>

\* lines 221-270: the inventory, and the campaigns matched with it.
SyncInventory ==
    /\ sync.pc = "s_inventory"
    /\ sync' = [sync EXCEPT !.pc = "s_sleep",
                            !.inventory = Append(@, sync.clock),
                            !.built = Append(@, sync.campaigns)]
    /\ UNCHANGED <<pw_in, pw_out, tmr, notWin>>

\* line 273: "time.sleep(60)", the iteration itself taking up to a second.
SyncSleep ==
    /\ sync.pc = "s_sleep"
    /\ \E d \in {60, 61} :
          sync' = [sync EXCEPT !.pc = "s_while", !.clock = @ + d,
                               !.iter = @ + 1]
    /\ UNCHANGED <<pw_in, pw_out, tmr, notWin>>

SyncNext ==
    \/ SyncDashboard
    \/ SyncInventory
    \/ SyncSleep

\* ======================================================= initial states
\* The parts that take no step in a specification.
PoolIdle ==
    /\ ws = <<>>
    /\ conn = <<>>
    /\ resub = <<>>
    /\ thr = (MainT :> Thread("m_idle", 0, "main"))
    /\ mainLeft = 0
    /\ mainNext = 1
    /\ faults = 0

MsgIdle ==
    /\ rdr = <<>>
    /\ last = <<>>
    /\ events_predictions = <<>>
    /\ timers = EmptyBag
    /\ betting = FALSE
    /\ routed = 0
    /\ calls = <<>>
    /\ caught = <<>>
    /\ raised = <<>>
    /\ armed = EmptyBag

WatchIdle ==
    /\ priority = <<>>
    /\ wpc = "w_off"
    /\ wk = 1
    /\ streamers_index = <<>>
    /\ streamers_watching = <<>>
    /\ sent = <<>>
    /\ cycles = 0
    /\ running = TRUE
    /\ chunk = 0
    /\ late = <<>>

WinIdle ==
    /\ pw_in = 0
    /\ pw_out = [done |-> TRUE, window |-> 0]
    /\ tmr = TimerOff
    /\ sync = SyncOff

\* ---- the initial states: the pool as the main thread's start-up loop
\* leaves it after its first n topics, every connection opened and flushed.
Range(a, b) == {x \in a..b : TRUE}

InitSocket(k, n) ==
    LET T == SetToBag(Range((k - 1) * TopicCap + 1,
                            IF k * TopicCap < n THEN k * TopicCap ELSE n))
    IN  [NewSocket EXCEPT !.topics = T, !.listened = T, !.is_opened = TRUE]

InitTopics == {0, 1, TopicCap - 1, TopicCap, 2 * TopicCap - 1}

PoolInit ==
    \E n \in InitTopics :
       LET k == (n + TopicCap - 1) \div TopicCap IN
       /\ ws = [c \in 1..k |-> c]
       /\ conn = [c \in 1..k |-> InitSocket(c, n)]
       /\ resub = [c \in 1..k |-> EmptyBag]
       /\ thr = [t \in {MainT} \cup {Rd(c) : c \in 1..k} \cup {Ka(c) : c \in 1..k} |->
                   IF t = MainT THEN Thread("m_idle", 0, "main")
                   ELSE IF t[1] = "rd" THEN Thread("r_run", t[2], "none")
                   ELSE Thread("k_sleep", t[2], "ka")]
       /\ mainLeft \in {0, MaxSubmit}
       /\ mainNext = n + 1
       /\ faults = 0
       /\ streamers = <<>>
       /\ MsgIdle
       /\ WatchIdle
       /\ WinIdle

Conns == 1..Len(conn)

\* ------------------------------------------------------- specifications
\* The whole pool: every thread and every transport event.
PoolNext ==
    \/ MainSubmit
    \/ EndStart
    \/ EndStep
    \/ \E t \in DOMAIN thr : SubmitCheck(t)
    \/ \E t \in DOMAIN thr : AppendNewWebsocket(t)
    \/ \E t \in DOMAIN thr : SubmitAppend(t)
    \/ \E t \in DOMAIN thr : SubmitIsOpened(t)
    \/ \E t \in DOMAIN thr : SubmitPend(t)
    \/ \E t \in DOMAIN thr : SubmitListen(t)
    \/ \E t \in DOMAIN thr : HrRemove(t)
    \/ \E c \in Conns : OnOpen(c)
    \/ \E c \in Conns : OnReconnectFrame(c)
    \/ \E c \in Conns : OnClose(c)
    \/ \E c \in Conns : KaStale(c)

SpecPool == PoolInit /\ [][PoolNext]_vars

\* The pool is explored in the environments below, each a restriction of
\* PoolNext.

\* Start-up: the main thread subscribes while the transports open.
StartupNext ==
    \/ MainSubmit
    \/ \E t \in DOMAIN thr : SubmitCheck(t)
    \/ \E t \in DOMAIN thr : AppendNewWebsocket(t)
    \/ \E t \in DOMAIN thr : SubmitAppend(t)
    \/ \E t \in DOMAIN thr : SubmitIsOpened(t)
    \/ \E t \in DOMAIN thr : SubmitPend(t)
    \/ \E t \in DOMAIN thr : SubmitListen(t)
    \/ \E c \in Conns : OnOpen(c)

SpecStartup == PoolInit /\ [][StartupNext]_vars

\* A transport drops while the main thread subscribes; the connections made
\* meanwhile have not opened yet.
RaceNext ==
    \/ MainSubmit
    \/ \E t \in DOMAIN thr : SubmitCheck(t)
    \/ \E t \in DOMAIN thr : AppendNewWebsocket(t)
    \/ \E t \in DOMAIN thr : SubmitAppend(t)
    \/ \E t \in DOMAIN thr : SubmitIsOpened(t)
    \/ \E t \in DOMAIN thr : SubmitPend(t)
    \/ \E t \in DOMAIN thr : SubmitListen(t)
    \/ \E t \in DOMAIN thr : HrRemove(t)
    \/ \E c \in Conns : OnClose(c)

SpecRace == PoolInit /\ [][RaceNext]_vars

\* After start-up: RECONNECT frames and dropped transports, answered by the
\* reader threads.
ReconnectInit ==
    /\ PoolInit
    /\ mainLeft = 0

ReconnectNext ==
    \/ \E t \in DOMAIN thr : SubmitCheck(t)
    \/ \E t \in DOMAIN thr : AppendNewWebsocket(t)
    \/ \E t \in DOMAIN thr : SubmitAppend(t)
    \/ \E t \in DOMAIN thr : SubmitIsOpened(t)
    \/ \E t \in DOMAIN thr : SubmitPend(t)
    \/ \E t \in DOMAIN thr : SubmitListen(t)
    \/ \E t \in DOMAIN thr : HrRemove(t)
    \/ \E c \in Conns : OnOpen(c)
    \/ \E c \in Conns : OnReconnectFrame(c)
    \/ \E c \in Conns : OnClose(c)

SpecReconnect == ReconnectInit /\ [][ReconnectNext]_vars

\* Shutdown: end() on the main thread, against dropped transports.
EndNext ==
    \/ EndStart
    \/ EndStep
    \/ \E t \in DOMAIN thr : SubmitCheck(t)
    \/ \E t \in DOMAIN thr : AppendNewWebsocket(t)
    \/ \E t \in DOMAIN thr : SubmitAppend(t)
    \/ \E t \in DOMAIN thr : SubmitIsOpened(t)
    \/ \E t \in DOMAIN thr : SubmitPend(t)
    \/ \E t \in DOMAIN thr : SubmitListen(t)
    \/ \E t \in DOMAIN thr : HrRemove(t)
    \/ \E c \in Conns : OnOpen(c)
    \/ \E c \in Conns : OnClose(c)

SpecEnd == ReconnectInit /\ [][EndNext]_vars

\* A provider whose PONGs stay out, on a pool of one connection.
StaleInit ==
    /\ ReconnectInit
    /\ Len(ws) = 1

StaleNext ==
    \/ \E c \in Conns : KaStale(c)
    \/ \E t \in DOMAIN thr : SubmitCheck(t)
    \/ \E t \in DOMAIN thr : HrRemove(t)
    \/ \E c \in Conns : OnClose(c)

SpecStale == StaleInit /\ [][StaleNext]_vars

\* The dispatcher on its own.
InitMsg ==
    /\ MsgInit
    /\ PoolIdle
    /\ WatchIdle
    /\ WinIdle

SpecMsg == InitMsg /\ [][MsgNext]_vars

\* The dispatcher on the balance, claim and drop topics, with RESPONSE
\* frames and calls on ws.twitch that may fail.
TopicFrames ==
    {[Msg("drop-progress", ChannelId(0), ts, 0, 0, "none", "none")
         EXCEPT !.drop = 1, !.current = cur, !.required = 60, !.missing = mis] :
        ts \in {0, 125}, cur \in {30, 60}, mis \in BOOLEAN}
    \cup {[Msg("points-earned", ChannelId(0), 0, 0, 0, "none", "WATCH")
              EXCEPT !.missing = mis] : mis \in BOOLEAN}
    \cup {Msg("claim-available", ch, 0, 0, 0, "none", "none") :
             ch \in MsgChannels}
    \cup {[Msg("drop-progress", 2, 0, 0, 0, "none", "none")
              EXCEPT !.drop = 1, !.current = 60, !.required = 60]}

TopicsNext ==
    \/ \E c \in MsgConns, m \in TopicFrames, remote \in RemoteOutcomes :
          OnMessage(c, m, remote)
    \/ \E c \in MsgConns, e \in Errors : OnResponse(c, e)

SpecTopics == InitMsg /\ [][TopicsNext]_vars

\* The dispatcher on the balance and stream-status topics of two streamers,
\* next to the watch scheduler.  Streamer 1 is online; streamer 0 is online
\* or went offline 70 seconds ago, with the flag of its last session.
StreakStreamers == {0, 1}

StreakFrames ==
    {Msg("points-earned", ChannelId(0), 0, 0, 0, "none", rc) :
        rc \in {"WATCH", "WATCH_STREAK"}}
    \cup {Msg(kind, ChannelId(0), 0, 0, 0, "none", "none") :
             kind \in {"stream-down", "viewcount"}}

InitStreak ==
    /\ MsgStart
    /\ PoolIdle
    /\ WinIdle
    /\ \E on \in {{1}, {0, 1}}, streak \in SUBSET StreakStreamers :
          streamers = [i \in StreakStreamers |->
             [NewStreamer EXCEPT
                !.is_online = i \in on,
                !.offline_at = IF i \in on THEN 0 ELSE 30,
                !.watch_streak_missing = i \in streak]]
    /\ priority \in {<<"STREAK">>, <<"DROPS", "STREAK">>}
    /\ wpc = "w_index"
    /\ wk = 1
    /\ streamers_index = <<>>
    /\ streamers_watching = <<>>
    /\ sent = <<>>
    /\ cycles = 0
    /\ running = TRUE
    /\ chunk = 0
    /\ late = <<>>

StreakNext ==
    \/ \E c \in MsgConns, m \in StreakFrames, remote \in {"ok", "domain"} :
          OnMessage(c, m, remote)
    \/ WatchIndex
    \/ WatchRule
    \/ WatchCut
    \/ WatchSend
    \/ WatchEnd
    \/ WatchAgain

SpecStreak == InitStreak /\ [][StreakNext]_vars

\* The dispatcher on the raid topic of one channel: two raids, each
\* announced at two timestamps, the other message types of the topic, and
\* frames of another topic in between.
RaidIds == {1, 2}

RaidFrames ==
    {[Msg("raid-update", ChannelId(0), ts, 0, 0, "none", "none")
         EXCEPT !.raid = r] : ts \in {0, 125}, r \in RaidIds}
    \cup {[Msg("raid-go", ChannelId(0), 0, 0, 0, "none", "none")
              EXCEPT !.raid = 1]}
    \cup {Msg("points-earned", ChannelId(0), 0, 0, 0, "none", "WATCH")}

RaidNext ==
    \E c \in MsgConns, m \in RaidFrames, remote \in {"ok", "error"} :
       OnMessage(c, m, remote)

SpecRaid == InitMsg /\ [][RaidNext]_vars

\* The dispatcher on the video-playback topic of one channel: viewcount
\* frames, which call check_streamer_online, with stream-down and
\* stream-up frames in between.  The channel starts online or offline,
\* never offline, offline since 30 or, inside the cooldown, since 50.
OnlineFrames ==
    {Msg("viewcount", ChannelId(0), ts, 0, 0, "none", "none") : ts \in {0, 125}}
    \cup {Msg(kind, ChannelId(0), 0, 0, 0, "none", "none") :
             kind \in {"stream-down", "stream-up"}}

InitOnline ==
    /\ MsgStart
    /\ \E on \in BOOLEAN, off \in {0, 30, 50} :
          /\ on => off # 50
          /\ streamers = [i \in MsgStreamers |->
                [NewStreamer EXCEPT !.is_online = on, !.offline_at = off,
                                    !.online_at = IF on THEN 95 ELSE 0,
                                    !.minute_watched = IF on THEN 0 ELSE 5,
                                    !.watch_streak_missing = on]]
    /\ PoolIdle
    /\ WatchIdle
    /\ WinIdle

OnlineNext ==
    \E c \in MsgConns, m \in OnlineFrames, remote \in UpdateStreamOutcomes :
       OnMessage(c, m, remote)

SpecOnline == InitOnline /\ [][OnlineNext]_vars

\* The dispatcher on the wager topics of one event: its creation, updates of
\* its status and outcomes, the confirmation and the result of the bet.
WagerFrames ==
    {[Msg("event-created", ChannelId(0), 0, 1, 150, "ACTIVE", "none")
         EXCEPT !.outcomes = 1]}
    \cup {[Msg("event-updated", ChannelId(0), ts, 1, 0, st, "none")
              EXCEPT !.outcomes = o] :
             ts \in {0, 125}, st \in {"ACTIVE", "LOCKED"}, o \in {2, 3}}
    \cup {[Msg("prediction-result", ChannelId(0), 0, 1, 0, "WIN", "none")
              EXCEPT !.won = <<5>>],
          Msg("prediction-result", ChannelId(0), 0, 1, 0, "LOSE", "none"),
          Msg("prediction-made", ChannelId(0), 0, 1, 0, "none", "none")}

InitWager ==
    /\ MsgStart
    /\ PoolIdle
    /\ WatchIdle
    /\ WinIdle
    /\ streamers = [i \in MsgStreamers |-> [NewStreamer EXCEPT !.is_online = TRUE]]

WagerNext ==
    \/ \E c \in MsgConns, m \in WagerFrames : OnMessage(c, m, "ok")
    \/ \E c \in MsgConns : Insert(c)
    \/ \E c \in MsgConns : StartBet(c)
    \/ \E c \in MsgConns : ArmOrDelete(c)
    \/ PlaceBet

SpecWager == InitWager /\ [][WagerNext]_vars

\* The same, every thread and timer running on: a step that can be taken is
\* taken.
SpecWagerFair == SpecWager /\ WF_vars(WagerNext)

\* The wager topics of one event, the Timer firing Twitch.make_predictions.
PredictNext ==
    \/ \E c \in MsgConns, m \in WagerFrames : OnMessage(c, m, "ok")
    \/ \E c \in MsgConns : Insert(c)
    \/ \E c \in MsgConns : StartBet(c)
    \/ \E c \in MsgConns : ArmOrDelete(c)
    \/ \E skip \in BOOLEAN : MakePredictions(skip)

SpecPredict == InitWager /\ [][PredictNext]_vars

\* The watch scheduler on its own.
InitWatch ==
    /\ WatchInit
    /\ PoolIdle
    /\ MsgIdle
    /\ WinIdle

SpecWatch == InitWatch /\ [][WatchNext]_vars

\* The watch scheduler of three streamers while the miner may shut down:
\* the iterations of the send loop with their sleeps, running cleared at
\* any moment.
BeatStreamers == {0, 1, 2}

InitBeat ==
    /\ \E on \in SUBSET BeatStreamers, streak \in SUBSET BeatStreamers :
          streamers = [i \in BeatStreamers |->
             [NewStreamer EXCEPT
                !.is_online = i \in on,
                !.watch_streak_missing = i \in streak]]
    /\ priority \in {<<"STREAK">>, <<"STREAK", "ORDER">>}
    /\ wpc = "w_index"
    /\ wk = 1
    /\ streamers_index = <<>>
    /\ streamers_watching = <<>>
    /\ sent = <<>>
    /\ cycles = 0
    /\ running = TRUE
    /\ chunk = 0
    /\ late = <<>>
    /\ PoolIdle
    /\ MsgIdle
    /\ WinIdle

BeatNext ==
    \/ WatchIndex
    \/ WatchRule
    \/ WatchCut
    \/ WatchPost
    \/ WatchSleep
    \/ WatchEnd
    \/ WatchAgain
    \/ WatchDone
    \/ Stop

SpecBeat == InitBeat /\ [][BeatNext]_vars

\* The window computation on its own.
InitWindow ==
    /\ WindowInit
    /\ tmr = TimerOff
    /\ sync = SyncOff
    /\ PoolIdle
    /\ MsgIdle
    /\ WatchIdle
    /\ streamers = <<>>

SpecWindow == InitWindow /\ [][ComputeWindow]_vars

\* The Timer of one event-created frame on the clock.
InitTimer ==
    /\ TimerInit
    /\ sync = SyncOff
    /\ pw_in = 0
    /\ pw_out = [done |-> TRUE, window |-> 0]
    /\ PoolIdle
    /\ MsgIdle
    /\ WatchIdle
    /\ streamers = <<NewStreamer>>

SpecTimer == InitTimer /\ [][TimerNext]_vars

\* The campaign sync loop on its own.
InitSync ==
    /\ SyncInit
    /\ pw_in = 0
    /\ pw_out = [done |-> TRUE, window |-> 0]
    /\ tmr = TimerOff
    /\ PoolIdle
    /\ MsgIdle
    /\ WatchIdle
    /\ streamers = <<NewStreamer>>

SpecSync == InitSync /\ [][SyncNext]_vars

\* ============================================================ the claims
\* ---- helpers
\* The threads inside submit.
InSubmit(t) ==
    thr[t].pc \in {"s_check", "s_new", "s_append", "s_isopen", "s_pend", "s_listen"}

\* How many times topic x is carried by the connections in the slots 1..i.
RECURSIVE CarriedUpTo(_, _)
CarriedUpTo(x, i) ==
    IF i = 0 THEN 0
    ELSE CarriedUpTo(x, i - 1)
         + (IF ws[i] = None THEN 0 ELSE CopiesIn(x, conn[ws[i]].topics))

Carried(x) == CarriedUpTo(x, Len(ws))

\* on_close ran handle_reconnection for connection c past the cooldown, not
\* suppressed by forced_close, and the handler is over.
ReconnectionOver(c) ==
    /\ thr[Rd(c)].pc = "r_done"
    /\ thr[Rd(c)].cb = "close"
    /\ ~conn[c].forced_close
    /\ ws[c] = None

\* C1: no connection ever carries more than 50 topics, under any interleaving
\* of submit calls, those of reconnection workers included.
C1_TopicCapacity ==
    \A c \in Conns : Size(conn[c].topics) <= TopicCap

\* C2: once handle_reconnection for a connection whose transport closed
\* (forced_close false) is over, every topic the connection carried is
\* carried exactly once by the live connections of the pool, whatever the
\* position of the connection.
C2_ReconnectionPreserves ==
    \A c \in Conns :
       ReconnectionOver(c) =>
          \A x \in BagToSet(conn[c].topics) : Carried(x) = 1

\* C3: however often reconnection is triggered for one connection, each of
\* its topics is re-submitted through submit exactly once.
C3_ReconnectionIdempotent ==
    \A c \in Conns :
       \A x \in BagToSet(resub[c]) : CopiesIn(x, resub[c]) = 1

\* C4: once end() has returned, no connection is appended to the pool and no
\* topic is re-submitted.
C4_ShutdownSuppresses ==
    [][thr[MainT].pc = "m_ended" => (Len(ws') = Len(ws) /\ resub' = resub)]_vars

\* C5: every topic passed to submit is sent in exactly one LISTEN request on
\* the connection it was assigned to: when no submit call is in progress, an
\* open connection has sent one LISTEN for each of its topics.
C5_ListenedOnce ==
    \A c \in Conns :
       (conn[c].is_opened /\ \A t \in DOMAIN thr : ~InSubmit(t)) =>
          conn[c].listened = conn[c].topics

\* ---- helpers of the dispatcher's claims
\* The step delivers a frame to reader c.
Delivers(c) == rdr'[c].n # rdr[c].n

C7_WindowSkip ==
    [][\A c \in MsgConns :
          (/\ Delivers(c)
           /\ rdr'[c].m.kind = "event-created"
           /\ rdr'[c].m.created_at + EffectiveWindow(rdr'[c].m.window)
                 <= rdr'[c].m.ts)
          => /\ rdr'[c].pc = "idle"
             /\ events_predictions' = events_predictions
             /\ timers' = timers]_vars

\* The only frame so far is an ACTIVE event-created for an online streamer
\* with a free browser, its window over: it was skipped.
C7_SkippedLate ==
    \E c \in MsgConns :
       /\ FramesSeen = 1
       /\ rdr[c].n = 1
       /\ rdr[c].pc = "idle"
       /\ rdr[c].m.kind = "event-created"
       /\ rdr[c].m.status = "ACTIVE"
       /\ rdr[c].m.created_at + EffectiveWindow(rdr[c].m.window) <= rdr[c].m.ts
       /\ streamers[0].is_online
       /\ ~betting
       /\ Tracked = {}
       /\ timers = EmptyBag

\* C8: at most one wager event has an armed timer that has not fired, and
\* while one is armed no timer is armed for another event.
C8_SingleInFlight ==
    [][/\ BagCardinality(timers') <= 1
       /\ (timers # EmptyBag => BagToSet(timers') \subseteq BagToSet(timers))]_vars

\* The timer of one event is armed, and start_bet has failed for another
\* event, whose handler is about to delete it.
C8_SecondEventRefused ==
    /\ BagCardinality(timers) = 1
    /\ \E c \in MsgConns :
          /\ rdr[c].pc = "m_status"
          /\ ~rdr[c].start_bet_status
          /\ \A e \in BagToSet(timers) : e # rdr[c].m.event

\* C9: the window handed to the wager event is w - 25 when w <= 180 and
\* w - 60 when w > 180: 150 gives 125, 300 gives 240, 180 gives 155.
C9_SafetyMargin ==
    pw_out.done =>
       /\ pw_in <= 180 => pw_out.window = pw_in - 25
       /\ pw_in > 180 => pw_out.window = pw_in - 60
       /\ pw_in = 150 => pw_out.window = 125
       /\ pw_in = 300 => pw_out.window = 240

\* The window of 180 seconds was computed, with the margin of 25.
C9_BoundaryWindow ==
    /\ pw_out.done
    /\ pw_in = 180
    /\ pw_out.window = 155

\* ---- helpers of the watch scheduler's claims
\* The candidates of a rule, as the claim counts them.
RuleCandidates(rule) ==
    IF rule = "ORDER" THEN FirstTwo(StreamersIndex)
    ELSE FirstTwo(SelectSeq(StreamersIndex, LAMBDA i : Qualifies(rule, i)))

RECURSIVE CandidatesFrom(_)
CandidatesFrom(k) ==
    IF k > Len(priority) THEN <<>>
    ELSE RuleCandidates(priority[k]) \o CandidatesFrom(k + 1)

RECURSIVE Uniq(_, _)
Uniq(l, acc) ==
    IF l = <<>> THEN acc
    ELSE Uniq(Tail(l), IF \E k \in 1..Len(acc) : acc[k] = Head(l)
                       THEN acc ELSE Append(acc, Head(l)))

SentIndexes == [k \in 1..Len(sent) |-> sent[k].index]

\* C10: with five eligible online streamers and the three rules configured
\* in any order, a cycle selects and sends a heartbeat to exactly two
\* streamers, the first two candidates of the rules in their declared order.
C10_WatchCap ==
    ((\A i \in WatchStreamers : Eligible(streamers[i])) /\ Len(priority) = 3) =>
       /\ wpc # "w_crashed"
       /\ wpc = "w_end" =>
             /\ Len(sent) = 2
             /\ SentIndexes = FirstTwo(Uniq(CandidatesFrom(1), <<>>))

\* C17: an id enters the tracked events only at line 229, in the handler of
\* an event-created frame that found the id untracked, the status ACTIVE and
\* the streamer online; an event-created frame with another status, for an
\* offline streamer or for a tracked id ends its handler with the map and
\* the timers unchanged.
C17_TrackOnCreate ==
    [][/\ \A e \in Tracked' \ Tracked :
             \E c \in MsgConns :
                /\ rdr[c].pc = "m_insert"
                /\ rdr'[c].pc = "m_start_bet"
                /\ rdr[c].m.kind = "event-created"
                /\ rdr[c].m.event = e
       /\ \A c \in MsgConns :
             (rdr[c].pc = "idle" /\ rdr'[c].pc = "m_insert")
             => /\ rdr'[c].m.kind = "event-created"
                /\ rdr'[c].m.event \notin Tracked
                /\ rdr'[c].m.status = "ACTIVE"
                /\ streamers[GetStreamerIndex(rdr'[c].m.channel)].is_online
       /\ \A c \in MsgConns :
             (/\ Delivers(c)
              /\ rdr'[c].m.kind = "event-created"
              /\ \/ rdr'[c].m.status # "ACTIVE"
                 \/ rdr'[c].m.event \in Tracked
                 \/ ~streamers[GetStreamerIndex(rdr'[c].m.channel)].is_online)
             => /\ rdr'[c].pc = "idle"
                /\ events_predictions' = events_predictions
                /\ timers' = timers]_vars

\* Event 1 is tracked with its timer armed; an event-created frame for event
\* 2 with status LOCKED has been handled and event 2 is not tracked.
C17_LockedNotTracked ==
    /\ Tracked = {1}
    /\ BagToSet(timers) = {1}
    /\ streamers[0].is_online
    /\ \E c \in MsgConns :
          /\ rdr[c].pc = "idle"
          /\ rdr[c].m.kind = "event-created"
          /\ rdr[c].m.status = "LOCKED"
          /\ rdr[c].m.event = 2

\* The step routes an event-updated frame of reader c for a tracked event.
UpdatesTracked(c) ==
    /\ Delivers(c)
    /\ routed' # routed
    /\ rdr'[c].m.kind = "event-updated"
    /\ rdr'[c].m.event \in Tracked

\* C18: an event-updated frame for a tracked event replaces the outcomes by
\* the frame's when the bet is not placed and no decision is computed, and
\* leaves them otherwise; it never changes the decision.
C18_OutcomeRefresh ==
    [][\A c \in MsgConns :
          UpdatesTracked(c) =>
             LET m == rdr'[c].m
                 old == events_predictions[m.event]
                 new == events_predictions'[m.event]
             IN /\ new.decision = old.decision
                /\ new.outcomes = IF ~old.bet_placed /\ old.decision = 0
                                  THEN m.outcomes ELSE old.outcomes]_vars

\* Event 1 has a decision and no bet placed yet; an event-updated frame with
\* status LOCKED and other outcomes was routed: the status is LOCKED, the
\* outcomes are those of the event-created frame.
C18_OutcomesKept ==
    /\ 1 \in Tracked
    /\ routed = FramesSeen
    /\ events_predictions[1].decision # 0
    /\ ~events_predictions[1].bet_placed
    /\ events_predictions[1].status = "LOCKED"
    /\ events_predictions[1].outcomes = 1
    /\ \E c \in MsgConns :
          /\ rdr[c].pc = "idle"
          /\ rdr[c].m.kind = "event-updated"
          /\ rdr[c].m.outcomes # 1

\* The decision of event ev has been submitted: place_bet placed the bet, or
\* the provider confirmed it (prediction-made).
Submitted(ev) == ev.bet_placed \/ ev.bet_confirmed

\* C19: once the decision of a tracked event is submitted, an event-updated
\* frame does not change the event's status.
C19_StatusAfterSubmit ==
    [][\A c \in MsgConns :
          (UpdatesTracked(c) /\ Submitted(events_predictions[rdr'[c].m.event]))
          => events_predictions'[rdr'[c].m.event].status
                = events_predictions[rdr'[c].m.event].status]_vars

\* Once the final result of a tracked event is recorded and no handler of an
\* event-created frame is under way, no step removes the event: no later
\* frame and no Timer.
ResultKept ==
    [][\A e \in Tracked :
          (/\ events_predictions[e].final_result # <<>>
           /\ \A c \in MsgConns : rdr[c].pc = "idle")
          => e \in Tracked']_vars

\* C20: a tracked event whose final result is recorded is eventually removed
\* from the tracked events.
C20_ResultEvicted ==
    \A e \in EventIds :
       (e \in Tracked /\ events_predictions[e].final_result # <<>>)
          ~> (e \notin Tracked)

\* ---- helpers of the claims on the other topics
\* The calls of operation op made for the drop-progress frames of drop d with
\* timestamp ts.
CallsFor(op, d, ts) ==
    {k \in 1..Len(calls) :
        calls[k].op = op /\ calls[k].drop = d /\ calls[k].ts = ts}

C13_HandlerIsolation ==
    [][\A c \in MsgConns :
          (Delivers(c) /\ rdr'[c].m.kind # "RESPONSE")
          => /\ raised' = raised
             /\ caught'[c] # caught[c] => rdr'[c].pc = "idle"]_vars

\* The handler of the first frame of a connection raised and was caught; the
\* second frame, a points-earned, updated the streamer.
C13_NextFrameHandled ==
    \E c \in MsgConns :
       /\ FramesSeen = 2
       /\ rdr[c].n = 2
       /\ caught[c] = 1
       /\ raised[c] = 0
       /\ routed = 2
       /\ rdr[c].m.kind = "points-earned"
       /\ ~rdr[c].m.missing
       /\ streamers[0].history = 1
       /\ streamers[0].channel_points = rdr[c].m.balance

\* C14: a MESSAGE frame of a channel that is not tracked changes no streamer
\* and no wager event, makes no call on ws.twitch, arms no timer and raises
\* nothing; of the dispatcher's state only the last-message key of the
\* receiving connection may change.
C14_UntrackedIgnored ==
    [][\A c \in MsgConns :
          (/\ Delivers(c)
           /\ rdr'[c].m.kind # "RESPONSE"
           /\ GetStreamerIndex(rdr'[c].m.channel) = -1)
          => /\ UNCHANGED <<streamers, events_predictions, timers, betting,
                            calls, caught, raised>>
             /\ rdr'[c].pc = "idle"
             /\ \A d \in MsgConns \ {c} : last'[d] = last[d]]_vars

\* The only frame so far, a claimable drop-progress of the untracked channel
\* 2, passed the duplicate check and left its key; nothing was called.
C14_UntrackedDrop ==
    \E c \in MsgConns :
       /\ FramesSeen = 1
       /\ routed = 1
       /\ rdr[c].m.kind = "drop-progress"
       /\ rdr[c].m.current >= rdr[c].m.required
       /\ rdr[c].m.channel = 2
       /\ GetStreamerIndex(2) = -1
       /\ last[c] = [ts |-> rdr[c].m.ts, id |-> <<"user-drop-events", 2>>]
       /\ calls = <<>>
       /\ caught[c] = 0

\* C15: a RESPONSE frame with a non-empty error makes on_message raise, once;
\* one whose error is empty or absent raises nothing.  Either way no
\* streamer, wager event, timer or call on ws.twitch changes, nothing is
\* submitted again to the pool, and the other connections are left as they
\* were.
C15_ResponseError ==
    [][\A c \in MsgConns :
          (Delivers(c) /\ rdr'[c].m.kind = "RESPONSE")
          => /\ raised'[c] = raised[c]
                   + (IF rdr'[c].m.reason = "ERR_BADTOPIC" THEN 1 ELSE 0)
             /\ UNCHANGED <<streamers, events_predictions, timers, betting,
                            calls, caught, last, routed, poolVars>>
             /\ \A d \in MsgConns \ {c} :
                   rdr'[d] = rdr[d] /\ raised'[d] = raised[d]]_vars

\* A points-earned frame was handled on one connection and a RESPONSE frame
\* with a provider error made on_message raise on the other.
C15_ErrorSurfaced ==
    \E c \in MsgConns, d \in MsgConns :
       /\ c # d
       /\ FramesSeen = 2
       /\ rdr[c].m.kind = "RESPONSE"
       /\ rdr[c].m.reason = "ERR_BADTOPIC"
       /\ raised[c] = 1
       /\ raised[d] = 0
       /\ rdr[d].m.kind = "points-earned"
       /\ streamers[0].history = 1

\* C16: a MESSAGE frame with the topic class, channel id and timestamp of the
\* last message that passed on another connection is not routed again: no
\* handler runs, no streamer or wager event changes and no call is made on
\* ws.twitch.
C16_CrossConnectionDedup ==
    [][\A c \in MsgConns :
          (/\ Delivers(c)
           /\ rdr'[c].m.kind # "RESPONSE"
           /\ \E d \in MsgConns \ {c} :
                 last[d] = [ts |-> rdr'[c].m.ts, id |-> Identifier(rdr'[c].m)])
          => /\ routed' = routed
             /\ UNCHANGED <<streamers, events_predictions, calls>>]_vars

\* The step sets streamer i online.
GoesOnline(i) == ~streamers[i].is_online /\ streamers'[i].is_online

\* The step is the STREAK rule of the watch scheduler.
StreakRuleStep ==
    /\ wpc = "w_prior"
    /\ wk <= Len(priority)
    /\ wk' = wk + 1
    /\ priority[wk] = "STREAK"

\* C12: a routed points-earned frame with reason WATCH_STREAK leaves
\* watch_streak_missing false; the flag then stays false over every frame
\* and every step of the watch scheduler until the streamer is set online
\* again; and the STREAK rule appends no streamer whose flag is false.
C12_WatchStreak ==
    [][/\ \A c \in MsgConns :
             (/\ Delivers(c)
              /\ routed' # routed
              /\ rdr'[c].m.kind = "points-earned"
              /\ rdr'[c].m.reason = "WATCH_STREAK")
             => ~streamers'[GetStreamerIndex(rdr'[c].m.channel)]
                   .watch_streak_missing
       /\ \A i \in DOMAIN streamers :
             (~streamers[i].watch_streak_missing /\ ~GoesOnline(i))
             => ~streamers'[i].watch_streak_missing
       /\ StreakRuleStep =>
             \A k \in (Len(streamers_watching) + 1)..Len(streamers_watching') :
                streamers[streamers_watching'[k].v[1]].watch_streak_missing]_vars

\* Streamer 0, watched in the first cycle for its missing streak, was passed
\* over by the STREAK rule of the second cycle after a WATCH_STREAK frame.
C12_StreakEarned ==
    /\ cycles = 1
    /\ wpc = "w_prior"
    /\ wk > 1
    /\ priority[1] = "STREAK"
    /\ \E c \in MsgConns : /\ rdr[c].m.reason = "WATCH_STREAK"
                            /\ rdr[c].m.channel = ChannelId(0)
    /\ streamers[0].is_online
    /\ streamers[0].offline_at = 0
    /\ streamers[0].minute_watched < 7
    /\ ~streamers[0].watch_streak_missing
    /\ streamers[0].minute_watched >= 1
    /\ \A k \in 1..Len(streamers_watching) : streamers_watching[k].v # <<0>>

\* ---- helpers of the claims on the deferred action
\* The positions in calls of the firings of make_predictions and of the
\* MakePrediction requests.
Firings == {k \in 1..Len(calls) : calls[k].op = "make_predictions"}

Requests == {k \in 1..Len(calls) : calls[k].op = "MakePrediction"}

C22_FiresBeforeClose ==
    tmr.pc = "t_fired" => tmr.fire_at <= tmr.closes_at

\* The frame was handled one second after its timestamp and the Timer
\* given all the time left: it fires one second after closesAt.
C22_FiredLate ==
    /\ tmr.pc = "t_fired"
    /\ tmr.delay = 1
    /\ tmr.start_after = tmr.closes_at - tmr.ts
    /\ tmr.fire_at = tmr.closes_at + 1

\* Without delay the Timer fires no later than closesAt.
C22_OnTimeWithoutDelay ==
    (tmr.pc = "t_fired" /\ tmr.delay = 0) => tmr.fire_at <= tmr.closes_at

\* ---- C23
\* C23: for every wager event id at most one Timer is ever started, in
\* every interleaving of the reader threads, also when two of them handle
\* the same event-created frame.
C23_ArmedOncePerEvent ==
    \A e \in EventIds : CopiesIn(e, armed) <= 1

\* Both readers passed the test of line 200 for the same frame before
\* either reached line 229.
C23_BothPastCheck ==
    /\ rdr[1].pc = "m_insert"
    /\ rdr[2].pc = "m_insert"
    /\ rdr[1].m.event = rdr[2].m.event

\* At most one Timer is pending at any time, whatever the interleaving.
C23_OnePending ==
    BagCardinality(timers) <= 1

\* An insertion at line 229 never replaces an event object of the same id.
C23_InsertOnce ==
    [][\A c \in MsgConns :
          (rdr[c].pc = "m_insert" /\ rdr'[c].pc = "m_start_bet")
             => rdr[c].m.event \notin Tracked]_vars

\* ---- C24
\* The indexes of the list streamers_index.
Indexed == {streamers_index[k] : k \in DOMAIN streamers_index}

\* The scheduler is past line 345 of its first cycle: no channel was
\* selected before.
FirstCycleIndexed == cycles = 0 /\ wpc \in {"w_prior", "w_send", "w_end"}

\* C24: a channel is eligible in a cycle exactly when it is online and was
\* never selected before or not within the last 30 time units; in the
\* first cycle, where nothing was selected before, exactly the online
\* channels are eligible.
C24_EligibleUnlessSelected ==
    FirstCycleIndexed =>
       \A i \in DOMAIN streamers : i \in Indexed <=> streamers[i].is_online

\* Streamer 0 is online, was set online 20 seconds ago and was never
\* selected: the first cycle leaves it out.
C24_FreshOnlineLeftOut ==
    /\ FirstCycleIndexed
    /\ streamers[0].is_online
    /\ streamers[0].online_at = Now - 20
    /\ 0 \notin Indexed

\* No offline channel is eligible, selected or sent a heartbeat.
C24_OfflineNeverSent ==
    /\ wpc \in {"w_prior", "w_send", "w_end"} =>
          \A i \in Indexed : streamers[i].is_online
    /\ \A k \in DOMAIN sent : streamers[sent[k].index].is_online

\* What decides is the time since the channel was set online.
C24_EligibleByOnlineAt ==
    wpc \in {"w_prior", "w_send", "w_end"} =>
       \A i \in DOMAIN streamers :
          i \in Indexed <=>
             /\ streamers[i].is_online
             /\ (streamers[i].online_at = 0
                   \/ Now - streamers[i].online_at > 30)

\* ---- C25
\* The loop of line 411 is at an element that is a channel index.
AtChannel ==
    /\ wpc = "w_send"
    /\ wk <= Len(streamers_watching)
    /\ ~streamers_watching[wk].list

\* The request of one iteration: one request, the counter of that channel
\* one higher exactly for status 204, every other counter as it was, and
\* the iteration goes on to its sleeps whatever the result.
HeartbeatStep ==
    AtChannel /\ wpc' # wpc =>
       LET i == streamers_watching[wk].v[1] IN
       /\ Len(sent') = Len(sent) + 1
       /\ sent'[Len(sent')].index = i
       /\ streamers'[i].minute_watched =
             streamers[i].minute_watched
                + (IF sent'[Len(sent')].result = "204" THEN 1 ELSE 0)
       /\ \A j \in DOMAIN streamers :
             j # i => streamers'[j].minute_watched = streamers[j].minute_watched
       /\ wpc' = "w_sleep"

\* The sleeps send nothing, count nothing and end at the next element.
SleepStep ==
    wpc = "w_sleep" =>
       /\ sent' = sent
       /\ streamers' = streamers
       /\ \/ wpc' = "w_sleep" /\ wk' = wk
          \/ wpc' = "w_send" /\ wk' = wk + 1

\* At the end of a cycle every selected channel was sent one request, in
\* order; the scheduler only ever stops at an element that is no index.
CycleSentAll ==
    /\ wpc \in {"w_end", "w_done"} =>
          /\ Len(sent) = Len(streamers_watching)
          /\ \A k \in DOMAIN sent :
                /\ ~streamers_watching[k].list
                /\ sent[k].index = streamers_watching[k].v[1]
    /\ wpc = "w_crashed" => streamers_watching[wk].list

C26_PromptStop ==
    late \in {<<>>, <<"chunk">>}

\* running was cleared during the sleeps of the first of two channels: the
\* second channel was sent a heartbeat all the same.
C26_HeartbeatAfterStop ==
    /\ ~running
    /\ Len(sent) = 2
    /\ late = <<"chunk", "heartbeat", "chunk">>

\* running was cleared with no channel eligible: the scheduler sleeps the
\* 60 seconds of line 436 in one piece.
C26_FullSleepAfterStop ==
    /\ ~running
    /\ streamers_watching = <<>>
    /\ late = <<"sleep60">>

\* After running is cleared the scheduler ends its cycle and returns: at
\* most the two heartbeats of that cycle, each with one chunk of sleep.
C26_StopsWithinCycle ==
    Len(late) <= 4

\* ---- C27
\* One step of streamer i: offline_at is written exactly when it goes from
\* online to offline, online_at exactly when it goes from offline to
\* online, and then the watch streak of the session starts again.
TransitionStep(i) ==
    LET s == streamers[i]
        t == streamers'[i]
    IN /\ (s.is_online /\ ~t.is_online) =>
             t.offline_at = Now /\ t.online_at = s.online_at
       /\ (~s.is_online /\ t.is_online) =>
             /\ t.online_at = Now
             /\ t.offline_at = s.offline_at
             /\ t.watch_streak_missing
             /\ t.minute_watched = 0
       /\ (s.is_online <=> t.is_online) =>
             t.online_at = s.online_at /\ t.offline_at = s.offline_at

\* A stream-down frame that is handled leaves the channel offline.
StreamDownStep ==
    \A c \in MsgConns :
       (/\ rdr'[c].n = rdr[c].n + 1
        /\ routed' = routed + 1
        /\ rdr'[c].m.kind = "stream-down"
        /\ Routable(GetStreamerIndex(rdr'[c].m.channel))) =>
          ~streamers'[At(GetStreamerIndex(rdr'[c].m.channel))].is_online

\* set_offline on an offline channel and set_online on an online one
\* change nothing.
NoOpWhenSettled ==
    \A i \in DOMAIN streamers :
       /\ ~streamers[i].is_online => SetOffline(streamers[i]) = streamers[i]
       /\ streamers[i].is_online => SetOnline(streamers[i]) = streamers[i]

\* C27: the online state of a channel changes only on real transitions:
\* stream-down marks an online channel offline and records offline_at;
\* set_offline on an offline channel and set_online on an online one leave
\* is_online, online_at and offline_at as they are; online_at is written
\* exactly on offline-to-online transitions, offline_at exactly on
\* online-to-offline ones.
C27_RealTransitions ==
    /\ []NoOpWhenSettled
    /\ [][StreamDownStep /\ \A i \in DOMAIN streamers : TransitionStep(i)]_vars

\* Streamer 0 was offline since 30, was found online and then marked
\* offline by a stream-down frame: both timestamps are those of the
\* transitions.
C27_OnlineThenOffline ==
    /\ ~streamers[0].is_online
    /\ streamers[0].online_at = Now
    /\ streamers[0].offline_at = Now
    /\ \E c \in MsgConns : rdr[c].m.kind = "stream-down"

\* ---- C28
\* The JoinRaid requests posted so far, in order.
RaidJoins == SelectSeq(calls, LAMBDA k : k.op = "JoinRaid")

\* No raid is joined twice in a row, and the raid recorded for the channel
\* is the one joined last.
JoinedOnce ==
    /\ \A k \in 1..(Len(RaidJoins) - 1) : RaidJoins[k].raid # RaidJoins[k + 1].raid
    /\ streamers[0].raid =
          (IF RaidJoins = <<>> THEN 0 ELSE RaidJoins[Len(RaidJoins)].raid)

\* A raid_update_v2 frame that is handled posts JoinRaid exactly when its
\* raid is not the recorded one, and leaves its raid recorded.
RaidStep ==
    \A c \in MsgConns :
       (/\ rdr'[c].n = rdr[c].n + 1
        /\ routed' = routed + 1
        /\ rdr'[c].m.kind = "raid-update") =>
          /\ Len(calls') =
                Len(calls) + (IF streamers[0].raid # rdr'[c].m.raid THEN 1 ELSE 0)
          /\ streamers'[0].raid = rdr'[c].m.raid

\* C28: a raid message joins the raid and records it only if the raid
\* differs from the one recorded for the channel; the same raid received
\* again, with other messages in between, is not joined again: each
\* distinct consecutive raid is joined exactly once.
C28_RaidJoinedOnce ==
    []JoinedOnce /\ [][RaidStep]_vars

\* Raid 1 was announced at two timestamps, on either connection, with a
\* third frame handled as well: one JoinRaid.
C28_SameRaidTwice ==
    /\ routed = 3
    /\ \A c \in MsgConns :
          rdr[c].m.kind = "raid-update" /\ rdr[c].m.raid = 1
    /\ rdr[1].m.ts # rdr[2].m.ts
    /\ Len(RaidJoins) = 1
    /\ streamers[0].raid = 1

\* ---- C29
\* C29: when a drop-progress frame reports the required progress and the
\* inventory lists the drop with an instance id, the drop claim is invoked
\* for that instance: every call of claim_drop runs the claim.
C29_DropClaimInvoked ==
    \A k \in 1..Len(calls) :
       calls[k].op = "claim_drop" => calls[k].result = "none"

\* The inventory listed the drop of the frame, and the call of claim_drop
\* that followed raised TypeError, caught at line 321.
C29_ClaimRaised ==
    /\ Len(calls) = 2
    /\ calls[1].op = "search_drop_in_inventory"
    /\ calls[1].result = "none"
    /\ calls[2].op = "claim_drop"
    /\ calls[2].result = "TypeError"
    /\ \E c \in MsgConns : caught[c] = 1

\* A drop that is not in the inventory is not claimed and raises nothing;
\* below the required progress nothing is called at all.
C29_NotFoundRecovered ==
    [][\A c \in MsgConns :
          (/\ rdr'[c].n = rdr[c].n + 1
           /\ rdr'[c].m.kind = "drop-progress"
           /\ ~rdr'[c].m.missing) =>
             /\ rdr'[c].m.current < rdr'[c].m.required => calls' = calls
             /\ (/\ Len(calls') = Len(calls) + 1
                 /\ calls'[Len(calls')].result = "TimeBasedDropNotFound") =>
                   caught' = caught /\ raised' = raised]_vars

\* ---- C30
\* C30: the drops dashboard is fetched on the first iteration of the sync
\* loop and afterwards only when more than 30 minutes have passed since
\* the previous fetch; the iterations in between only read the inventory.
C30_DashboardEvery30Minutes ==
    /\ sync.inventory # <<>> => sync.dashboard # <<>>
    /\ \A k \in 1..(Len(sync.dashboard) - 1) :
          sync.dashboard[k + 1] - sync.dashboard[k] > 30 * 60

\* The second iteration, 60 seconds after the first, fetched the
\* dashboard again.
C30_FetchedAgain ==
    /\ sync.iter = 1
    /\ Len(sync.dashboard) = 2
    /\ sync.dashboard[2] - sync.dashboard[1] = 60

\* Every iteration reads the inventory once, after the dashboard was
\* fetched at least once, and campaigns_update stays 0.
C30_InventoryEachIteration ==
    /\ sync.campaigns_update = 0
    /\ Len(sync.inventory) \in {sync.iter, sync.iter + 1}
    /\ Len(sync.dashboard) \in {Len(sync.inventory), Len(sync.inventory) + 1}

\* ---- C31
\* No reader is inside the handler of an event-created frame of event e.
HandlingOver(e) ==
    \A c \in MsgConns : rdr[c].pc = "idle" \/ rdr[c].m.event # e

\* C31: once the handling of the event-created frames of an event is over,
\* the event is in events_predictions if and only if a Timer was started
\* for it.
C31_TrackedIffArmed ==
    \A e \in EventIds :
       HandlingOver(e) => (e \in Tracked <=> CopiesIn(e, armed) >= 1)

\* Both readers are idle again: a Timer was started for event 1, and the
\* reader whose start_bet was refused has deleted the event.
C31_ArmedNotTracked ==
    /\ \A c \in MsgConns : rdr[c].pc = "idle"
    /\ \A c \in MsgConns :
          rdr[c].m.kind = "event-created" /\ rdr[c].m.event = 1
    /\ 1 \notin Tracked
    /\ CopiesIn(1, armed) = 1

\* The other direction holds: a tracked event whose handling is over has
\* had a Timer.
C31_TrackedHasTimer ==
    \A e \in EventIds :
       (HandlingOver(e) /\ e \in Tracked) => CopiesIn(e, armed) >= 1

\* ---- C32
\* C32: the channels selected in one cycle are pairwise distinct, and no
\* channel is sent two heartbeats in one cycle, also when it qualifies
\* under more than one rule.
C32_DistinctSelection ==
    /\ wpc \in {"w_send", "w_end"} =>
          \A j, k \in DOMAIN streamers_watching :
             (/\ j # k
              /\ ~streamers_watching[j].list
              /\ ~streamers_watching[k].list) =>
                streamers_watching[j].v[1] # streamers_watching[k].v[1]
    /\ \A j, k \in DOMAIN sent : j # k => sent[j].index # sent[k].index

\* Priority STREAK then DROPS: a channel with a missing watch streak and
\* a drops campaign holds both slots and was sent both heartbeats.
C32_SameChannelTwice ==
    /\ wpc = "w_end"
    /\ priority = <<"STREAK", "DROPS">>
    /\ Len(sent) = 2
    /\ sent[1].index = sent[2].index
    /\ StreakCondition(streamers[sent[1].index])
    /\ DropsCondition(streamers[sent[1].index])

\* Within one rule no channel is taken twice: without a channel that
\* qualifies under both STREAK and DROPS the selection is distinct.
C32_DistinctWithinRule ==
    (/\ wpc \in {"w_send", "w_end"}
     /\ cycles = 0
     /\ \A i \in DOMAIN streamers :
           ~(streamers[i].watch_streak_missing /\ streamers[i].drops_tags)) =>
       \A j, k \in DOMAIN streamers_watching :
          (/\ j # k
           /\ ~streamers_watching[j].list
           /\ ~streamers_watching[k].list) =>
             streamers_watching[j].v[1] # streamers_watching[k].v[1]

\* ---- C33
\* check_streamer_online on streamer s with each outcome of update_stream
\* that raises no request failure: inside the cooldown s stays as it is;
\* outside it an offline s becomes online only when the stream metadata
\* was fetched, and an s reported offline ends offline.
CheckedRight(s) ==
    \A remote \in UpdateStreamOutcomes \ {"error"} :
       LET t == CheckStreamerOnline(s, remote) IN
       IF Now < s.offline_at + 60 THEN t = s
       ELSE /\ (~s.is_online /\ t.is_online) => remote = "ok"
            /\ remote = "domain" => ~t.is_online

\* A viewcount frame that reaches check_streamer_online.
ViewcountChecked(c) ==
    /\ rdr'[c].n = rdr[c].n + 1
    /\ routed' = routed + 1
    /\ rdr'[c].m.kind = "viewcount"
    /\ Len(calls') = Len(calls) + 1

\* One such frame: inside the cooldown the channel and its stream stay as
\* they are and no request is made, whatever a request would have
\* returned; a channel that goes online had its stream metadata fetched.
CheckStep ==
    \A c \in MsgConns :
       ViewcountChecked(c) =>
          LET s == streamers[0]
              t == streamers'[0]
              call == calls'[Len(calls')]
          IN /\ call.op = "check_streamer_online"
             /\ Now < s.offline_at + 60 =>
                   t = s /\ call.result = "none" /\ call.status = "none"
             /\ (~s.is_online /\ t.is_online) => call.status # "cached"

\* C33: check_streamer_online less than 60 time units after offline_at
\* changes nothing and requests nothing; outside the cooldown an offline
\* channel becomes online only when the fetch of the stream metadata
\* succeeds, and a channel the fetch reports offline ends offline.
C33_CooldownAndFetch ==
    /\ [](\A i \in DOMAIN streamers : CheckedRight(streamers[i]))
    /\ [][CheckStep]_vars

\* The channel, offline since 30, was found online by a call in which
\* update_stream requested nothing.
C33_OnlineWithoutFetch ==
    /\ Len(calls) = 1
    /\ calls[1].op = "check_streamer_online"
    /\ calls[1].status = "cached"
    /\ streamers[0].is_online
    /\ streamers[0].online_at = Now
    /\ streamers[0].offline_at = 30

\* The rest of the claim holds: the cooldown is a no-op without a
\* request, a channel reported offline ends offline, a failed request
\* changes nothing, and a channel goes online only when update_stream
\* raised nothing.
CheckedNoRaise(s) ==
    \A remote \in UpdateStreamOutcomes \ {"error"} :
       LET t == CheckStreamerOnline(s, remote) IN
       IF Now < s.offline_at + 60 THEN t = s
       ELSE /\ (~s.is_online /\ t.is_online) => remote \in {"ok", "cached"}
            /\ remote = "domain" => ~t.is_online

CheckStepNoRaise ==
    \A c \in MsgConns :
       ViewcountChecked(c) =>
          LET s == streamers[0]
              t == streamers'[0]
              call == calls'[Len(calls')]
          IN /\ Now < s.offline_at + 60 =>
                   t = s /\ call.result = "none" /\ call.status = "none"
             /\ call.result = "RequestException" => t = s

C33_CooldownHolds ==
    /\ [](\A i \in DOMAIN streamers : CheckedNoRaise(streamers[i]))
    /\ [][CheckStepNoRaise]_vars

\* A call inside the cooldown: streamer 0, offline since 50, is as it was.
C33_InsideCooldown ==
    /\ Len(calls) = 1
    /\ rdr[1].m.kind = "viewcount"
    /\ ~streamers[0].is_online
    /\ streamers[0].offline_at = 50
====
